---- MODULE Spec2Model ----
(***************************************************************************)
(* A model of the Micro compiler (src/src/compiler.ts, src/src/ast.ts):    *)
(* the character-level recursive-descent parser as operators over a source *)
(* buffer, and compile/eval as a state machine whose steps are the calls   *)
(* between the engine and the host's reducers.                             *)
(*                                                                         *)
(* A source is a sequence of one-character strings, indexed from 0 as in   *)
(* the code (At).  Names (operators, macros, limbs, literal values) are    *)
(* sequences of characters too, so that what the parser cuts out of the    *)
(* source is compared with what the host declared.                         *)
(***************************************************************************)
EXTENDS Integers, Sequences, FiniteSets, TLC

(***************************************************************************)
(* Characters and strings                                                  *)
(***************************************************************************)

\* The value of src[i] when i is outside the string, and of a missing argument.
UNDEF == "undefined"

\* The character '\0' that parseScript appends to the source.
NUL == "NUL"

Min(a, b) == IF a <= b THEN a ELSE b

Max(a, b) == IF a >= b THEN a ELSE b

\* src[i]
At(src, i) == IF i >= 0 /\ i < Len(src) THEN src[i + 1] ELSE UNDEF

\* src.substring(i, j): both ends clamped to [0, length], swapped when i > j.
Substring(src, i, j) ==
    LET a == Min(Max(i, 0), Len(src))
        b == Min(Max(j, 0), Len(src))
    IN  SubSeq(src, Min(a, b) + 1, Max(a, b))

WHITESPACE_CHARS == {"\n", "\t", " "}

OPERATOR_CHARS ==
    {"&", "|", "~", "^", "@", "=", "+", "-", "'", "$", "*", "%", "!", "§",
     "/", ":", ".", ",", "?", "<", ">"}

\* The characters c with c.toLowerCase() !== c.toUpperCase(), within ASCII.
CaseChangingChars ==
    {"a", "b", "c", "d", "e", "f", "g", "h", "i", "j", "k", "l", "m",
     "n", "o", "p", "q", "r", "s", "t", "u", "v", "w", "x", "y", "z",
     "A", "B", "C", "D", "E", "F", "G", "H", "I", "J", "K", "L", "M",
     "N", "O", "P", "Q", "R", "S", "T", "U", "V", "W", "X", "Y", "Z"}

DigitChars == {"0", "1", "2", "3", "4", "5", "6", "7", "8", "9"}

between(a, b, x) == a <= x /\ x <= b

isEOF(src, i) == i >= Len(src) \/ At(src, i) = NUL

isSymbolicOperatorChar(src, i) == ~isEOF(src, i) /\ At(src, i) \in OPERATOR_CHARS

isWhitespace(src, i) == ~isEOF(src, i) /\ At(src, i) \in WHITESPACE_CHARS

isLetter(src, i) ==
    ~isEOF(src, i) /\ (At(src, i) \in CaseChangingChars \/ At(src, i) = "_")

isNumber(src, i) == ~isEOF(src, i) /\ At(src, i) \in DigitChars

isLetterOrNumber(src, i) == ~isEOF(src, i) /\ (isLetter(src, i) \/ isNumber(src, i))

isOperatorFirstChar(src, i) ==
    i < Len(src) /\ (At(src, i) = "#" \/ isSymbolicOperatorChar(src, i))

isExpressionFirstChar(src, i) ==
    i < Len(src) /\ (isLetter(src, i) \/ isNumber(src, i) \/ isOperatorFirstChar(src, i)
                     \/ At(src, i) \in {"{", "(", "[", "\""})

(***************************************************************************)
(* Metadata and errors (src/src/ast.ts)                                    *)
(***************************************************************************)

makeMetadata(src, i, j) == [src |-> src, excerpt |-> Substring(src, i, j), loc |-> i]

RECURSIVE CountNewlines(_)
CountNewlines(s) ==
    IF s = <<>> THEN 0
    ELSE (IF Head(s) = "\n" THEN 1 ELSE 0) + CountNewlines(Tail(s))

\* The length of s.split("\n").at(-1): what follows the last line break.
RECURSIVE LastLineLength(_)
LastLineLength(s) ==
    IF s = <<>> \/ s[Len(s)] = "\n" THEN 0
    ELSE 1 + LastLineLength(SubSeq(s, 1, Len(s) - 1))

\* s.split("\n")[0]
RECURSIVE FirstLine(_)
FirstLine(s) ==
    IF s = <<>> \/ Head(s) = "\n" THEN <<>>
    ELSE <<Head(s)>> \o FirstLine(Tail(s))

\* The header `At (line, column) : "<first line of the excerpt>" : ` of throwWith.
Header(metadata) ==
    LET before == Substring(metadata.src, 0, metadata.loc)
    IN  [line    |-> CountNewlines(before) + 1,
         column  |-> LastLineLength(before) + 1,
         excerpt |-> FirstLine(metadata.excerpt)]

\* A thrown value: the message a host or the engine threw, and the headers
\* that throwWith has put before it, the first one leftmost in the string.
Thrown(msg) == [headers |-> <<>>, msg |-> msg]

\* A throwWith that puts the header after those the error has already.
throwWithAfter(metadata, e) ==
    [headers |-> e.headers \o <<Header(metadata)>>, msg |-> e.msg]

\* throwWith(metadata, msg): throws header + msg; msg may be a caught error.
throwWith(metadata, e) == [headers |-> <<Header(metadata)>> \o e.headers, msg |-> e.msg]

\* The outcome of a parsing function: a thrown error, or a value and (for the
\* functions that return [value, length]) the number of characters consumed.
Throw(metadata, msg) == [err |-> TRUE, error |-> throwWith(metadata, Thrown(msg))]

Ok(val, len) == [err |-> FALSE, val |-> val, len |-> len]

(***************************************************************************)
(* The compiler instance: its Declaration Registry                         *)
(***************************************************************************)

\* this.operators: name -> [precedence, arity]; this.macros: name -> [arity, limbs]
VARIABLES operators, macros

\* Number.POSITIVE_INFINITY as the upper end of an arity range.
Infinity == 1000000

\* typeof arity === "number" ? [arity, arity] : arity
\* A declaration's arity is written <<n>> for the number n and <<min, max>> for a range.
ArityRange(arity) == IF Len(arity) = 1 THEN <<arity[1], arity[1]>> ELSE arity

\* The loop with the precedence growing with the index of the group.
RECURSIVE DeclareSliceAscending(_, _, _, _, _)
DeclareSliceAscending(ops, slice, k, i, n) ==
    IF k > Len(slice) THEN ops
    ELSE DeclareSliceAscending(
            [name \in DOMAIN ops \cup {slice[k].name} |->
                IF name = slice[k].name
                THEN [arity |-> ArityRange(slice[k].arity), precedence |-> i + 1]
                ELSE ops[name]],
            slice, k + 1, i, n)

\* The loop of constructor lines 51-56 over operators[i], from element k on.
RECURSIVE DeclareSlice(_, _, _, _, _)
DeclareSlice(ops, slice, k, i, n) ==
    IF k > Len(slice) THEN ops
    ELSE DeclareSlice(
            [name \in DOMAIN ops \cup {slice[k].name} |->
                IF name = slice[k].name
                THEN [arity |-> ArityRange(slice[k].arity), precedence |-> n - i]
                ELSE ops[name]],
            slice, k + 1, i, n)

\* The loop over the groups; i is the 0-based index of the group.
RECURSIVE DeclareOperators(_, _, _)
DeclareOperators(ops, groups, i) ==
    IF i >= Len(groups) THEN ops
    ELSE DeclareOperators(DeclareSlice(ops, groups[i + 1], 1, i, Len(groups)), groups, i + 1)

\* The loop of constructor lines 58-61.
RECURSIVE DeclareMacros(_, _, _)
DeclareMacros(ms, decls, k) ==
    IF k > Len(decls) THEN ms
    ELSE DeclareMacros(
            [name \in DOMAIN ms \cup {decls[k].name} |->
                IF name = decls[k].name
                THEN [arity |-> ArityRange(decls[k].arity), limbs |-> decls[k].limbs]
                ELSE ms[name]],
            decls, k + 1)

EmptyMap == [name \in {} |-> {}]

\* new MicroCompiler(opGroups, macroDecls, lift, scriptMacro)
constructor(opGroups, macroDecls) ==
    [operators |-> DeclareOperators(EmptyMap, opGroups, 0),
     macros    |-> DeclareMacros(EmptyMap, macroDecls, 1)]

\* this.method(...args): the methods of MicroCompiler that build nodes, skip
\* blanks and parse call each other through this one operator, defined after
\* them all.
RECURSIVE Call(_, _)

\* A check that passed.
NoError == [err |-> FALSE]

callOp == <<"#", "c", "a", "l", "l">>
indexOp == <<"#", "i", "n", "d", "e", "x">>
bindOp == <<"#", "b", "i", "n", "d">>
numberOp == <<"#", "n", "u", "m", "b", "e", "r">>
stringOp == <<"#", "s", "t", "r", "i", "n", "g">>
nameOp == <<"#", "n", "a", "m", "e">>

\* The property names every object literal inherits from Object.prototype.
ObjectPrototypeKeys ==
    { <<"c", "o", "n", "s", "t", "r", "u", "c", "t", "o", "r">>,
      <<"h", "a", "s", "O", "w", "n", "P", "r", "o", "p", "e", "r", "t", "y">>,
      <<"i", "s", "P", "r", "o", "t", "o", "t", "y", "p", "e", "O", "f">>,
      <<"p", "r", "o", "p", "e", "r", "t", "y", "I", "s", "E", "n", "u", "m", "e", "r", "a", "b", "l", "e">>,
      <<"t", "o", "L", "o", "c", "a", "l", "e", "S", "t", "r", "i", "n", "g">>,
      <<"t", "o", "S", "t", "r", "i", "n", "g">>,
      <<"v", "a", "l", "u", "e", "O", "f">>,
      <<"_", "_", "p", "r", "o", "t", "o", "_", "_">>,
      <<"_", "_", "d", "e", "f", "i", "n", "e", "G", "e", "t", "t", "e", "r", "_", "_">>,
      <<"_", "_", "d", "e", "f", "i", "n", "e", "S", "e", "t", "t", "e", "r", "_", "_">>,
      <<"_", "_", "l", "o", "o", "k", "u", "p", "G", "e", "t", "t", "e", "r", "_", "_">>,
      <<"_", "_", "l", "o", "o", "k", "u", "p", "S", "e", "t", "t", "e", "r", "_", "_">> }

\* key in obj, for an obj created as {}: own and inherited properties.
HasKey(obj, key) == key \in DOMAIN obj \/ key \in ObjectPrototypeKeys

\* A TypeError of the runtime, thrown as it is (no throwWith).
TypeError(msg) == [err |-> TRUE, error |-> Thrown(<<"TypeError: ", msg>>)]

checkOperatorExists(metadata, name) ==
    IF ~HasKey(operators, name) THEN Throw(metadata, <<"Unknown operator.">>)
    ELSE NoError

\* An arity check that lets every count through.
AnyCount(metadata, name, count) == NoError

checkOperatorArity(metadata, name, operandCount) ==
    LET c == checkOperatorExists(metadata, name)
    IN  IF c.err THEN c
        ELSE IF name \notin DOMAIN operators
             THEN TypeError("Cannot read properties of undefined (reading 'arity')")
        ELSE LET arity == operators[name].arity
             IN  IF ~between(arity[1], arity[2], operandCount)
                 THEN Throw(metadata, <<"Operator '", name, "' expects between ", arity[1],
                                        " and ", arity[2], " arguments, got ", operandCount, ".">>)
                 ELSE NoError

\* Returns the node (in val) or the error of one of the two checks.
makeOperation(operator, operands, metadata) ==
    LET c1 == checkOperatorExists(metadata, operator)
    IN  IF c1.err THEN c1
        ELSE LET c2 == checkOperatorArity(metadata, operator, Len(operands))
             IN  IF c2.err THEN c2
                 ELSE [err |-> FALSE,
                       val |-> [type |-> "operation", operator |-> operator,
                                operands |-> operands, metadata |-> metadata]]

\* A check for which every macro name is declared.
EveryMacroExists(metadata, macro) == NoError

checkMacroExists(metadata, macro) ==
    IF ~HasKey(macros, macro) THEN Throw(metadata, <<"Unknown macro.">>)
    ELSE NoError

\* A check that lets a macro have any number of arguments.
AnyArity(metadata, macro, argcount) == checkMacroExists(metadata, macro)

checkMacroArity(metadata, macro, argcount) ==
    LET c == checkMacroExists(metadata, macro)
    IN  IF c.err THEN c
        ELSE IF macro \notin DOMAIN macros
             THEN TypeError("Spread syntax requires ...iterable[Symbol.iterator] to be a function")
        ELSE LET arity == macros[macro].arity
             IN  IF ~between(arity[1], arity[2], argcount)
                 THEN Throw(metadata, <<"Macro '", macro, "' expects between ", arity[1],
                                        " and ", arity[2], " arguments, got ", argcount, ".">>)
                 ELSE NoError

\* limbs.includes(limb)
Includes(seq, x) == \E k \in 1..Len(seq) : seq[k] = x

checkMacroHasLimb(metadata, macro, limb) ==
    LET c == checkMacroExists(metadata, macro)
    IN  IF c.err THEN c
        ELSE IF macro \notin DOMAIN macros
             THEN TypeError("Cannot read properties of undefined (reading 'includes')")
        ELSE IF ~Includes(macros[macro].limbs, limb)
             THEN Throw(metadata, <<"Macro '", macro, "' doesn't accept a limb called ", limb, ".">>)
             ELSE NoError

\* String(n) for n >= 0, as characters: the keys that `for (k in array)` yields.
RECURSIVE DecimalChars(_)
DecimalChars(n) ==
    LET digit == <<"0", "1", "2", "3", "4", "5", "6", "7", "8", "9">>[(n % 10) + 1]
    IN  IF n < 10 THEN <<digit>> ELSE DecimalChars(n \div 10) \o <<digit>>

\* The keys of `for (let limb in this.macros[name].limbs)`: limbs is an array,
\* so the loop variable runs over its indices "0", "1", ..., not its elements.
LimbLoopKeys(name) == {DecimalChars(k - 1) : k \in 1..Len(macros[name].limbs)}

makeMacro(name, body, args, limbs, metadata) ==
    LET c1 == checkMacroExists(metadata, name)
    IN  IF c1.err THEN c1
        ELSE LET c2 == checkMacroArity(metadata, name, Len(args))
             IN  IF c2.err THEN c2
                 ELSE LET bad == {l \in DOMAIN limbs : checkMacroHasLimb(metadata, name, l).err}
                      IN  IF bad # {}
                          THEN checkMacroHasLimb(metadata, name, CHOOSE l \in bad : TRUE)
                          ELSE [err |-> FALSE,
                                val |-> [type |-> "macro", name |-> name, body |-> body,
                                         args |-> args,
                                         limbs |-> [l \in DOMAIN limbs \cup LimbLoopKeys(name) |->
                                                      IF l \in DOMAIN limbs THEN limbs[l] ELSE <<>>],
                                         metadata |-> metadata]]

makeLiteral(value, metadata) == [type |-> "literal", value |-> value, metadata |-> metadata]

makeLiteralOperation(op, value, metadata) ==
    Call("makeOperation", <<op, <<makeLiteral(value, metadata)>>, metadata>>)

(***************************************************************************)
(* Scanner                                                                 *)
(***************************************************************************)

\* An index returned by flushed.
Ret(val) == [err |-> FALSE, val |-> val]

\* What a loop that never ends gives: nothing is returned and nothing thrown.
NeverReturns == [err |-> TRUE, error |-> [headers |-> <<>>, msg |-> <<"(the loop does not end)">>]]

\* The do-while loop of flushed without the test of line 171: past the end
\* of src every substring is empty, j grows and depth stays as it is.
RECURSIVE CommentLoopUnchecked(_, _, _, _)
CommentLoopUnchecked(src, i, j, depth) ==
    LET two == Substring(src, j, j + 2)
        j1 == IF two = <<"[", "[">> THEN j + 2
              ELSE IF two = <<"]", "]">> THEN j + 3
              ELSE j + 1
        d1 == IF two = <<"[", "[">> THEN depth + 1
              ELSE IF two = <<"]", "]">> THEN depth - 1
              ELSE depth
    IN  IF d1 <= 0 THEN [err |-> FALSE, val |-> j1]
        ELSE IF j1 >= Len(src) THEN NeverReturns
        ELSE CommentLoopUnchecked(src, i, j1, d1)

\* The do-while loop of flushed (lines 157-172), entered with j and depth.
\* The case "]]" has no break: it falls through to the default's j++.
RECURSIVE CommentLoop(_, _, _, _)
CommentLoop(src, i, j, depth) ==
    LET two == Substring(src, j, j + 2)
        j1 == IF two = <<"[", "[">> THEN j + 2
              ELSE IF two = <<"]", "]">> THEN j + 3
              ELSE j + 1
        d1 == IF two = <<"[", "[">> THEN depth + 1
              ELSE IF two = <<"]", "]">> THEN depth - 1
              ELSE depth
    IN  IF j1 >= Len(src) THEN Throw(makeMetadata(src, i, Len(src)), <<"Unclosed comment.">>)
        ELSE IF d1 > 0 THEN CommentLoop(src, i, j1, d1)
        ELSE Ret(j1)

RECURSIVE WhitespaceLoop(_, _)
WhitespaceLoop(src, j) == IF isWhitespace(src, j) THEN WhitespaceLoop(src, j + 1) ELSE j

flushed(src, i) ==
    LET r == IF Substring(src, i, i + 2) = <<"[", "[">>
             THEN CommentLoop(src, i, i, 0)
             ELSE Ret(WhitespaceLoop(src, i))
    IN  IF r.err THEN r
        ELSE IF r.val - i > 0 THEN Call("flushed", <<src, r.val>>)
        ELSE Ret(r.val)

(***************************************************************************)
(* Tokens                                                                  *)
(***************************************************************************)

RECURSIVE SymbolicLoop(_, _)
SymbolicLoop(src, j) == IF isSymbolicOperatorChar(src, j) THEN SymbolicLoop(src, j + 1) ELSE j

parseSymbolicOperator(src, i) ==
    LET j == SymbolicLoop(src, i)
    IN  Ok(Substring(src, i, j), j - i)

RECURSIVE LetterOrNumberLoop(_, _)
LetterOrNumberLoop(src, j) ==
    IF isLetterOrNumber(src, j) THEN LetterOrNumberLoop(src, j + 1) ELSE j

\* The loop starts at the '#' itself (j is not advanced past it), and '#' is
\* neither a letter nor a digit.
parseHashOperator(src, i0) ==
    LET f == Call("flushed", <<src, i0>>)
    IN  IF f.err THEN f
        ELSE LET i == f.val
             IN  IF At(src, i) # "#" THEN Throw(makeMetadata(src, i, i + 1), <<"'#' expected.">>)
                 ELSE LET j == LetterOrNumberLoop(src, i)
                      IN  Ok(Substring(src, i, j), j - i)

parseIdentifier(src, i0) ==
    LET f == Call("flushed", <<src, i0>>)
    IN  IF f.err THEN f
        ELSE LET i == f.val
             IN  IF ~isLetter(src, i) THEN Throw(makeMetadata(src, i, i + 1), <<"Letters expected.">>)
                 ELSE LET j == LetterOrNumberLoop(src, i + 1)
                      IN  Ok(Substring(src, i, j), j - i)

parseOperator(src, i0) ==
    LET f == Call("flushed", <<src, i0>>)
    IN  IF f.err THEN f
        ELSE LET i == f.val
             IN  IF ~isOperatorFirstChar(src, i)
                 THEN Throw(makeMetadata(src, i, i + 1), <<"Operator expected.">>)
                 ELSE LET r == IF isSymbolicOperatorChar(src, i)
                               THEN parseSymbolicOperator(src, i)
                               ELSE parseHashOperator(src, i)
                      IN  IF r.err THEN r
                          ELSE LET c == checkOperatorExists(makeMetadata(src, i, i + r.len), r.val)
                               IN  IF c.err THEN c ELSE r

RECURSIVE NumberLoop(_, _)
NumberLoop(src, j) == IF isNumber(src, j) THEN NumberLoop(src, j + 1) ELSE j

parseNumber(src, i0) ==
    LET f == Call("flushed", <<src, i0>>)
    IN  IF f.err THEN f
        ELSE LET i == f.val
                 j1 == NumberLoop(src, i)
                 j2 == IF At(src, j1) = "." THEN j1 + 1 ELSE j1
                 j == NumberLoop(src, j2)
                 op == Call("makeLiteralOperation", <<numberOp, Substring(src, i, j), makeMetadata(src, i, j)>>)
             IN  IF op.err THEN op ELSE Ok(op.val, j - i)

(***************************************************************************)
(* The recursive-descent parser.  Every function returns the length it     *)
(* consumed counted from its own flushed start index, as in the code.      *)
(***************************************************************************)


\* The while (true) loop of parseString (lines 216-232).
RECURSIVE StringChunkEnd(_, _)
StringChunkEnd(src, k) ==
    IF ~isEOF(src, k) /\ At(src, k) # "{" /\ At(src, k) # "\"" THEN StringChunkEnd(src, k + 1)
    ELSE k

RECURSIVE StringLoop(_, _, _, _)
StringLoop(src, i, j, args) ==
    IF At(src, j) = "{"
    THEN LET e == Call("parseExpression", <<src, j + 1, 0>>)
         IN  IF e.err THEN e
             ELSE LET f == Call("flushed", <<src, j + 1 + e.len>>)
                  IN  IF f.err THEN f
                      ELSE IF At(src, f.val) # "}"
                           THEN Throw(makeMetadata(src, f.val, f.val + 1), <<"'}' expected.">>)
                           ELSE StringLoop(src, i, f.val + 1, Append(args, e.val))
    ELSE LET k == StringChunkEnd(src, j)
             args1 == Append(args, makeLiteral(Substring(src, j, k), makeMetadata(src, j, k)))
         IN  IF isEOF(src, k)
             THEN Throw(makeMetadata(src, k, k + 1), <<"Closing '\"' expected before end of file.">>)
             ELSE IF At(src, k) = "\""
                  THEN LET op == Call("makeOperation", <<stringOp, args1, makeMetadata(src, i, k + 1)>>)
                       IN  IF op.err THEN op ELSE Ok(op.val, k + 1 - i)
                  ELSE StringLoop(src, i, k, args1)

parseString(src, i0) ==
    LET f == Call("flushed", <<src, i0>>)
    IN  IF f.err THEN f
        ELSE LET i == f.val
             IN  IF At(src, i) # "\"" THEN Throw(makeMetadata(src, i, i + 1), <<"'\"' expected.">>)
                 ELSE LET f2 == Call("flushed", <<src, i + 1>>)
                      IN  IF f2.err THEN f2
                          ELSE LET j == f2.val
                               IN  StringLoop(src, i, j,
                                       IF At(src, j) = "{"
                                       THEN <<makeLiteral(<<>>, makeMetadata(src, j, j))>>
                                       ELSE <<>>)

\* A loop that takes the next expression whether or not a `;` came before it.
RECURSIVE SequenceLoopLenient(_, _, _, _, _)
SequenceLoopLenient(src, i, j, end, sequence) ==
    LET e == Call("parseExpression", <<src, j, 0>>)
    IN  IF e.err THEN e
        ELSE LET f1 == Call("flushed", <<src, j + e.len>>)
             IN  IF f1.err THEN f1
                 ELSE LET semicolonSeen == At(src, f1.val) = ";"
                          f2 == IF semicolonSeen THEN Call("flushed", <<src, f1.val + 1>>) ELSE f1
                      IN  IF f2.err THEN f2
                          ELSE IF At(src, f2.val) = end
                               THEN Ok(Append(sequence, e.val), f2.val + 1 - i)
                               ELSE SequenceLoopLenient(src, i, f2.val, end, Append(sequence, e.val))

\* The while (!done) loop of parseExpressionSequence (lines 267-279).
RECURSIVE SequenceLoop(_, _, _, _, _)
SequenceLoop(src, i, j, end, sequence) ==
    LET e == Call("parseExpression", <<src, j, 0>>)
    IN  IF e.err THEN e
        ELSE LET f1 == Call("flushed", <<src, j + e.len>>)
             IN  IF f1.err THEN f1
                 ELSE LET semicolonSeen == At(src, f1.val) = ";"
                          f2 == IF semicolonSeen THEN Call("flushed", <<src, f1.val + 1>>) ELSE f1
                      IN  IF f2.err THEN f2
                          ELSE LET endSeen == At(src, f2.val) = end
                               IN  IF ~(semicolonSeen \/ endSeen)
                                   THEN Throw(makeMetadata(src, f2.val, f2.val + 1), <<"';' expected.">>)
                                   ELSE IF endSeen
                                        THEN Ok(Append(sequence, e.val), f2.val + 1 - i)
                                        ELSE SequenceLoop(src, i, f2.val, end, Append(sequence, e.val))

\* start is UNDEF when the argument is omitted (or is an undefined src[j]).
parseExpressionSequence(src, i0, end, start) ==
    LET f == Call("flushed", <<src, i0>>)
    IN  IF f.err THEN f
        ELSE LET i == f.val
             IN  IF start # UNDEF /\ At(src, i) # start
                 THEN Throw(makeMetadata(src, i, i + 1), <<"'", start, "' expected.">>)
                 ELSE LET f2 == IF start # UNDEF THEN Call("flushed", <<src, i + 1>>) ELSE f
                      IN  IF f2.err THEN f2
                          ELSE IF At(src, f2.val) = end THEN Ok(<<>>, f2.val + 1 - i)
                               ELSE SequenceLoop(src, i, f2.val, end, <<>>)

\* The limb loop of parseMacroOrName (lines 302-313), entered after j += consumed4.
\* Returns the limbs and, as len, the index j the loop ends with.
RECURSIVE LimbLoop(_, _, _, _)
LimbLoop(src, name, j, limbs) ==
    LET f == Call("flushed", <<src, j>>)
    IN  IF f.err THEN f
        ELSE IF ~isLetter(src, f.val) THEN Ok(limbs, j)
        ELSE LET id == Call("parseIdentifier", <<src, f.val>>)
             IN  IF id.err THEN id
                 ELSE LET m == makeMetadata(src, f.val, f.val + id.len)
                          c == checkMacroHasLimb(m, name, id.val)
                      IN  IF c.err THEN c
                          ELSE IF HasKey(limbs, id.val)
                               THEN Throw(m, <<"Can't declare twice the limb '", id.val, "'.">>)
                               ELSE LET f2 == Call("flushed", <<src, f.val + id.len>>)
                                    IN  IF f2.err THEN f2
                                        ELSE LET b == Call("parseExpressionSequence", <<src, f2.val, "}", "{">>)
                                             IN  IF b.err THEN b
                                                 ELSE LimbLoop(src, name, f2.val + b.len,
                                                        [l \in DOMAIN limbs \cup {id.val} |->
                                                            IF l = id.val THEN b.val ELSE limbs[l]])

\* parseMacroOrName from line 296 on: name was read at i (consumed1 characters),
\* bound is the boundTo literal when hasBound (consumed2 characters), args the
\* argument list when hasArgs, and j the index after the last flush.
MacroOrNameTail(src, i, name, consumed1, hasBound, bound, consumed2, hasArgs, args, j) ==
    IF At(src, j) = "{"
    THEN LET c == checkMacroExists(makeMetadata(src, i, i + consumed1), name)
         IN  IF c.err THEN c
             ELSE LET body == Call("parseExpressionSequence", <<src, j, "}", "{">>)
                  IN  IF body.err THEN body
                      ELSE LET ls == LimbLoop(src, name, j + body.len, EmptyMap)
                           IN  IF ls.err THEN ls
                               ELSE LET jEnd == ls.len
                                        macroAST == Call("makeMacro", <<name, body.val,
                                                        IF hasArgs THEN args ELSE <<>>,
                                                        ls.val, makeMetadata(src, i, jEnd)>>)
                                    IN  IF macroAST.err THEN macroAST
                                        ELSE IF hasBound
                                             THEN LET op == Call("makeOperation", <<bindOp, <<bound, macroAST.val>>,
                                                                makeMetadata(src, i, jEnd)>>)
                                                  IN  IF op.err THEN op ELSE Ok(op.val, jEnd - i)
                                             ELSE Ok(macroAST.val, jEnd - i)
    ELSE IF hasBound
    THEN LET f == Call("flushed", <<src, i + consumed1>>)
         IN  IF f.err THEN f
             ELSE LET boundNameStart == i + consumed1 + f.val
                  IN  Throw(makeMetadata(src, boundNameStart, boundNameStart + consumed2),
                            <<"Operator expected.">>)
    ELSE LET metadata == makeMetadata(src, i, j)
             nameAST == Call("makeLiteralOperation", <<nameOp, name, metadata>>)
         IN  IF nameAST.err THEN nameAST
             ELSE IF hasArgs
                  THEN LET op == Call("makeOperation", <<callOp, <<nameAST.val>> \o args, metadata>>)
                       IN  IF op.err THEN op ELSE Ok(op.val, j - i)
                  ELSE Ok(nameAST.val, j - i)

parseMacroOrName(src, i0) ==
    LET f == Call("flushed", <<src, i0>>)
    IN  IF f.err THEN f
        ELSE LET i == f.val
                 id == Call("parseIdentifier", <<src, i>>)
             IN  IF id.err THEN id
                 ELSE LET f1 == Call("flushed", <<src, i + id.len>>)
                      IN  IF f1.err THEN f1
                          ELSE LET hasBound == isLetter(src, f1.val)
                                   b == IF hasBound THEN Call("parseIdentifier", <<src, f1.val>>) ELSE Ok(<<>>, 0)
                               IN  IF b.err THEN b
                                   ELSE LET bound == makeLiteral(b.val, makeMetadata(src, f1.val, f1.val + b.len))
                                            f2 == Call("flushed", <<src, f1.val + b.len>>)
                                        IN  IF f2.err THEN f2
                                            ELSE LET hasArgs == At(src, f2.val) = "("
                                                     a == IF hasArgs
                                                          THEN Call("parseExpressionSequence", <<src, f2.val, ")", "(">>)
                                                          ELSE Ok(<<>>, 0)
                                                 IN  IF a.err THEN a
                                                     ELSE LET f3 == Call("flushed", <<src, f2.val + a.len>>)
                                                          IN  IF f3.err THEN f3
                                                              ELSE MacroOrNameTail(src, i, id.val, id.len,
                                                                       hasBound, bound, b.len,
                                                                       hasArgs, a.val, f3.val)

parseSilentMacro(src, i) ==
    LET body == Call("parseExpressionSequence", <<src, i, "}", "{">>)
    IN  IF body.err THEN body
        ELSE LET m == Call("makeMacro", <<<<>>, body.val, <<>>, EmptyMap, makeMetadata(src, i, i + body.len)>>)
             IN  IF m.err THEN m ELSE Ok(m.val, body.len)

parseParenthesizedExpression(src, i0) ==
    LET f == Call("flushed", <<src, i0>>)
    IN  IF f.err THEN f
        ELSE LET i == f.val
             IN  IF At(src, i) # "(" THEN Throw(makeMetadata(src, i, i + 1), <<"'(' expected.">>)
                 ELSE LET f1 == Call("flushed", <<src, i + 1>>)
                      IN  IF f1.err THEN f1
                          ELSE LET e == Call("parseExpression", <<src, f1.val, 0>>)
                               IN  IF e.err THEN e
                                   ELSE LET f2 == Call("flushed", <<src, f1.val + e.len>>)
                                        IN  IF f2.err THEN f2
                                            ELSE IF At(src, f2.val) # ")"
                                                 THEN Throw(makeMetadata(src, f2.val, f2.val + 1), <<"')' expected.">>)
                                                 ELSE Ok(e.val, f2.val + 1 - i)

parsePrefixBracketedExpression(src, i0) ==
    LET f == Call("flushed", <<src, i0>>)
    IN  IF f.err THEN f
        ELSE LET i == f.val
             IN  IF At(src, i) # "[" THEN Throw(makeMetadata(src, i, i + 1), <<"'[' expected.">>)
                 ELSE LET f1 == Call("flushed", <<src, i + 1>>)
                      IN  IF f1.err THEN f1
                          ELSE LET o == Call("parseOperator", <<src, f1.val>>)
                               IN  IF o.err THEN o
                                   ELSE LET f2 == Call("flushed", <<src, f1.val + o.len>>)
                                        IN  IF f2.err THEN f2
                                            ELSE LET s == Call("parseExpressionSequence", <<src, f2.val, "]", UNDEF>>)
                                                 IN  IF s.err THEN s
                                                     ELSE LET j == f2.val + s.len
                                                              op == Call("makeOperation", <<o.val, s.val, makeMetadata(src, i, j)>>)
                                                          IN  IF op.err THEN op ELSE Ok(op.val, j - i)

\* A selection that, asked for the operators, gives the first one only.
FirstOperatorOnly(operatorands, k) ==
    IF k = 1 THEN SubSeq(operatorands, 2, 2)
    ELSE [n \in 1..((Len(operatorands) + 1) \div 2) |-> operatorands[2 * n - 1]]

\* operatorands[k] for the odd k (1, 3, ...), 0-based: the operators.
RECURSIVE OddElements(_, _)
OddElements(operatorands, k) ==
    IF k >= Len(operatorands) THEN <<>>
    ELSE <<operatorands[k + 1]>> \o OddElements(operatorands, k + 2)

\* The while (true) loop of parseInfixBracketedExpression (lines 401-415);
\* returns the operatorands and, as len, the index of the closing bracket.
RECURSIVE InfixLoop(_, _, _, _)
InfixLoop(src, j, operatorands, expectOperator) ==
    IF At(src, j) = "]" THEN Ok(operatorands, j)
    ELSE IF expectOperator
    THEN LET o == Call("parseOperator", <<src, j>>)
         IN  IF o.err THEN o
             ELSE LET f == Call("flushed", <<src, j + o.len>>)
                  IN  IF f.err THEN f
                      ELSE InfixLoop(src, f.val, Append(operatorands, o.val), ~expectOperator)
    ELSE IF isExpressionFirstChar(src, j)
    THEN LET o == Call("parseOperand", <<src, j, FALSE>>)
         IN  IF o.err THEN o
             ELSE LET f == Call("flushed", <<src, j + o.len>>)
                  IN  IF f.err THEN f
                      ELSE InfixLoop(src, f.val, Append(operatorands, o.val), ~expectOperator)
    ELSE InfixLoop(src, j, operatorands, ~expectOperator)

parseInfixBracketedExpression(src, i0) ==
    LET f == Call("flushed", <<src, i0>>)
    IN  IF f.err THEN f
        ELSE LET i == f.val
             IN  IF At(src, i) # "[" THEN Throw(makeMetadata(src, i, i + 1), <<"'[' expected.">>)
                 ELSE LET f1 == Call("flushed", <<src, i + 1>>)
                      IN  IF f1.err THEN f1
                          ELSE LET l == InfixLoop(src, f1.val, <<>>, FALSE)
                               IN  IF l.err THEN l
                                   ELSE LET j == l.len
                                            operatorands == l.val
                                            ops == OddElements(operatorands, 1)
                                        IN  IF Len(operatorands) < 2
                                            THEN Throw(makeMetadata(src, i, j),
                                                       <<"Infix bracket expressions expect at least an operand and an operator.">>)
                                            ELSE IF \E k \in 1..Len(ops) : ops[k] # ops[1]
                                            THEN Throw(makeMetadata(src, i, j),
                                                       <<"Syntax error : Only a single type of operator is allowed inside a bracket expression.",
                                                         "Enclose subexpressions in parentheses if needed.">>)
                                            ELSE LET op == Call("makeOperation", <<ops[1], OddElements(operatorands, 0),
                                                                         makeMetadata(src, i, j)>>)
                                                 IN  IF op.err THEN op ELSE Ok(op.val, j - i)

\* A choice that takes every pack for an infix one.
InfixAlways(src, i0) == Call("parseInfixBracketedExpression", <<src, i0>>)

parseBracketedExpression(src, i0) ==
    LET f == Call("flushed", <<src, i0>>)
    IN  IF f.err THEN f
        ELSE LET f1 == Call("flushed", <<src, f.val + 1>>)
             IN  IF f1.err THEN f1
                 ELSE IF isOperatorFirstChar(src, f1.val)
                      THEN Call("parsePrefixBracketedExpression", <<src, f.val>>)
                      ELSE Call("parseInfixBracketedExpression", <<src, f.val>>)

\* A threshold that lets every operator into the operand.
NoThreshold(operator) == 0

\* The strictMinPrecedence parseUnaryOperation gives to parseExpression (line 443).
UnaryThreshold(operator) == operators[operator].precedence

parseUnaryOperation(src, i0) ==
    LET f == Call("flushed", <<src, i0>>)
    IN  IF f.err THEN f
        ELSE LET i == f.val
                 o == Call("parseOperator", <<src, i>>)
             IN  IF o.err THEN o
                 ELSE LET f1 == Call("flushed", <<src, i + o.len>>)
                      IN  IF f1.err THEN f1
                          ELSE LET e == Call("parseExpression", <<src, f1.val, UnaryThreshold(o.val)>>)
                               IN  IF e.err THEN e
                                   ELSE LET f2 == Call("flushed", <<src, f1.val + e.len>>)
                                        IN  IF f2.err THEN f2
                                            ELSE LET op == Call("makeOperation", <<o.val, <<e.val>>, makeMetadata(src, i, f2.val)>>)
                                                 IN  IF op.err THEN op ELSE Ok(op.val, f2.val - i)

\* The while (true) loop of parseExpression (lines 456-486); j is flushed.
RECURSIVE ExpressionLoop(_, _, _, _, _)
ExpressionLoop(src, i, j, leftSide, strictMinPrecedence) ==
    IF At(src, j) = "("
    THEN LET c == checkOperatorExists(makeMetadata(src, j, j + 1), callOp)
         IN  IF c.err THEN c
             ELSE IF operators[callOp].precedence <= strictMinPrecedence THEN Ok(leftSide, j - i)
             ELSE LET a == Call("parseExpressionSequence", <<src, j, ")", "(">>)
                  IN  IF a.err THEN a
                      ELSE LET op == Call("makeOperation", <<callOp, <<leftSide>> \o a.val, makeMetadata(src, i, j)>>)
                           IN  IF op.err THEN op
                               ELSE LET f == Call("flushed", <<src, j + a.len>>)
                                    IN  IF f.err THEN f
                                        ELSE ExpressionLoop(src, i, f.val, op.val, strictMinPrecedence)
    ELSE IF At(src, j) = "["
    THEN LET c == checkOperatorExists(makeMetadata(src, j, j + 1), indexOp)
         IN  IF c.err THEN c
             ELSE IF operators[indexOp].precedence <= strictMinPrecedence THEN Ok(leftSide, j - i)
             ELSE LET a == Call("parseExpressionSequence", <<src, j, "]", "[">>)
                  IN  IF a.err THEN a
                      ELSE LET op == Call("makeOperation", <<indexOp, <<leftSide>> \o a.val, makeMetadata(src, i, j)>>)
                           IN  IF op.err THEN op
                               ELSE LET f == Call("flushed", <<src, j + a.len>>)
                                    IN  IF f.err THEN f
                                        ELSE ExpressionLoop(src, i, f.val, op.val, strictMinPrecedence)
    ELSE IF isOperatorFirstChar(src, j)
    THEN LET o == Call("parseOperator", <<src, j>>)
         IN  IF o.err THEN o
             ELSE IF operators[o.val].precedence <= strictMinPrecedence THEN Ok(leftSide, j - i)
             ELSE LET f == Call("flushed", <<src, j + o.len>>)
                  IN  IF f.err THEN f
                      ELSE LET r == Call("parseExpression", <<src, f.val, operators[o.val].precedence>>)
                           IN  IF r.err THEN r
                               ELSE LET j1 == f.val + r.len
                                        op == Call("makeOperation", <<o.val, <<leftSide, r.val>>, makeMetadata(src, i, j1)>>)
                                    IN  IF op.err THEN op
                                        ELSE LET f2 == Call("flushed", <<src, j1>>)
                                             IN  IF f2.err THEN f2
                                                 ELSE ExpressionLoop(src, i, f2.val, op.val, strictMinPrecedence)
    ELSE Ok(leftSide, j - i)

parseExpression(src, i0, strictMinPrecedence) ==
    LET f == Call("flushed", <<src, i0>>)
    IN  IF f.err THEN f
        ELSE LET i == f.val
                 l == Call("parseOperand", <<src, i, TRUE>>)
             IN  IF l.err THEN l
                 ELSE LET f1 == Call("flushed", <<src, i + l.len>>)
                      IN  IF f1.err THEN f1
                          ELSE ExpressionLoop(src, i, f1.val, l.val, strictMinPrecedence)

\* String(undefined): the key that `undefined in this.operators` looks up.
UndefinedName == <<"u", "n", "d", "e", "f", "i", "n", "e", "d">>

\* { '(': "#call", '[': "#index" }[c]
PostfixOperator(c) == IF c = "(" THEN callOp ELSE IF c = "[" THEN indexOp ELSE UndefinedName

\* { '(': ')', '[': ']' }[c]
MatchingEnd(c) == IF c = "(" THEN ")" ELSE IF c = "[" THEN "]" ELSE UNDEF

\* The while loop of parseOperand (lines 527-539): its condition reads
\* src[j+flushed], the sum of two indices, and its body restarts from flushed.
RECURSIVE PostfixLoop(_, _, _, _, _)
PostfixLoop(src, i, j, flushedIdx, operand) ==
    IF At(src, j + flushedIdx) \in {"(", "["}
    THEN LET j1 == flushedIdx
             a == Call("parseExpressionSequence", <<src, j1, MatchingEnd(At(src, j1)), At(src, j1)>>)
         IN  IF a.err THEN a
             ELSE LET j2 == j1 + a.len
                      f == Call("flushed", <<src, j2 + a.len>>)
                  IN  IF f.err THEN f
                      ELSE LET op == Call("makeOperation", <<PostfixOperator(At(src, j1)),
                                                   <<operand>> \o a.val, makeMetadata(src, i, j2)>>)
                           IN  IF op.err THEN op
                               ELSE PostfixLoop(src, i, j2, f.val, op.val)
    ELSE Ok(operand, j - i)

parseOperand(src, i0, allowUnaryOperations) ==
    LET f == Call("flushed", <<src, i0>>)
    IN  IF f.err THEN f
        ELSE LET i == f.val
                 o == IF isEOF(src, i)
                      THEN Throw(makeMetadata(src, i, i + 1), <<"Unexpected end of file while parsing operand.">>)
                      ELSE IF isLetter(src, i) THEN Call("parseMacroOrName", <<src, i>>)
                      ELSE IF isNumber(src, i) THEN Call("parseNumber", <<src, i>>)
                      ELSE IF isOperatorFirstChar(src, i) /\ allowUnaryOperations
                           THEN Call("parseUnaryOperation", <<src, i>>)
                      ELSE IF At(src, i) = "(" THEN Call("parseParenthesizedExpression", <<src, i>>)
                      ELSE IF At(src, i) = "[" THEN Call("parseBracketedExpression", <<src, i>>)
                      ELSE IF At(src, i) = "\"" THEN Call("parseString", <<src, i>>)
                      ELSE IF At(src, i) = "{" THEN Call("parseSilentMacro", <<src, i>>)
                      ELSE Throw(makeMetadata(src, i, i + 1), <<"Unexpected character : '", At(src, i), "'.">>)
             IN  IF o.err THEN o
                 ELSE LET j == i + o.len
                          f1 == Call("flushed", <<src, j>>)
                      IN  IF f1.err THEN f1
                          ELSE PostfixLoop(src, i, j, f1.val, o.val)

\* The method table of the parsing part of MicroCompiler.
Call(f, args) ==
    CASE f = "flushed" -> flushed(args[1], args[2])
      [] f = "makeOperation" -> makeOperation(args[1], args[2], args[3])
      [] f = "makeMacro" -> makeMacro(args[1], args[2], args[3], args[4], args[5])
      [] f = "makeLiteralOperation" -> makeLiteralOperation(args[1], args[2], args[3])
      [] f = "parseOperator" -> parseOperator(args[1], args[2])
      [] f = "parseIdentifier" -> parseIdentifier(args[1], args[2])
      [] f = "parseNumber" -> parseNumber(args[1], args[2])
      [] f = "parseString" -> parseString(args[1], args[2])
      [] f = "parseExpressionSequence" -> parseExpressionSequence(args[1], args[2], args[3], args[4])
      [] f = "parseMacroOrName" -> parseMacroOrName(args[1], args[2])
      [] f = "parseSilentMacro" -> parseSilentMacro(args[1], args[2])
      [] f = "parseParenthesizedExpression" -> parseParenthesizedExpression(args[1], args[2])
      [] f = "parsePrefixBracketedExpression" -> parsePrefixBracketedExpression(args[1], args[2])
      [] f = "parseInfixBracketedExpression" -> parseInfixBracketedExpression(args[1], args[2])
      [] f = "parseBracketedExpression" -> parseBracketedExpression(args[1], args[2])
      [] f = "parseUnaryOperation" -> parseUnaryOperation(args[1], args[2])
      [] f = "parseExpression" -> parseExpression(args[1], args[2], args[3])
      [] f = "parseOperand" -> parseOperand(args[1], args[2], args[3])

\* parseScript(src): the statements, or the error thrown.
parseScript(src) == Call("parseExpressionSequence", <<Append(src, NUL), 0, NUL, UNDEF>>)

(***************************************************************************)
(* compile and eval as a state machine.                                    *)
(*                                                                         *)
(* The engine and the host call each other: compile calls the script       *)
(* reducer, a macro reducer calls context.ev, eval calls lift and the      *)
(* reducers.  The stack holds the activations in progress; ctl says what   *)
(* happens next: an eval call, the application of an operator, a host      *)
(* reducer running, or a value or an error on its way to the top frame.    *)
(* The host's code is not part of the repository: a reducer may call ev on *)
(* any AST it was given, with any of its local tables, any number of times *)
(* up to a bound, return, throw, or catch what ev threw.                   *)
(***************************************************************************)

VARIABLES
    src,     \* the argument of compile
    host,    \* what the host's lift and reducers may do (fixed from Init on)
    pc,      \* "start", "parsed", "running", "done", "failed"
    asts,    \* the statements parseScript returned
    stack,   \* the activations in progress, the innermost last
    ctl,     \* the next step of the evaluation
    trace,   \* history: the calls made across the engine/host boundary
    result   \* what compile returned or threw

vars == <<operators, macros, src, host, pc, asts, stack, ctl, trace, result>>

\* A reducer is known by who made it: compile's default for a name, or the host.
DefaultOperatorReducer(op) == [kind |-> "defaultOperator", tag |-> op]

DefaultMacroReducer(macro) == [kind |-> "defaultMacro", tag |-> macro]

HostReducer(tag) == [kind |-> "host", tag |-> tag]

\* The reducer given to the constructor (or to compile) as scriptMacro.
ScriptReducer == HostReducer("script")

\* The value lift returns for a literal, and the value a host reducer returns:
\* the host is modelled as returning a term that records what it was given.
Lifted(value) == [lifted |-> value]

Reduced(reducer, args) == [reducer |-> reducer, args |-> args]

\* { ...a, ...b }
Spread(a, b) == [n \in DOMAIN a \cup DOMAIN b |-> IF n \in DOMAIN b THEN b[n] ELSE a[n]]

\* compile lines 601-604.
DefaultOperators == [op \in DOMAIN operators |-> DefaultOperatorReducer(op)]

\* compile lines 606-609: the loop over this.macros assigns into
\* defaultOperators; defaultMacros is returned as it was created.
DefaultScopes ==
    [operators |-> Spread(DefaultOperators,
                          [macro \in DOMAIN macros |-> DefaultMacroReducer(macro)]),
     macros    |-> EmptyMap]

\* A context made of the tables compile starts from, whatever the scope.
makeContextOfDefaults(ambientOperators, ambientMacros) ==
    [operators |-> [op \in DOMAIN operators \cup DOMAIN macros |->
                       IF op \in DOMAIN macros THEN [kind |-> "defaultMacro", tag |-> op]
                       ELSE [kind |-> "defaultOperator", tag |-> op]],
     macros |-> [n \in {} |-> {}]]

makeContext(ambientOperators, ambientMacros) ==
    [operators |-> ambientOperators, macros |-> ambientMacros]

\* An ev that evaluates in the ambient tables whatever it is passed.
evAmbient(context, ast, localOperators, localMacros) ==
    [mode |-> "eval", node |-> ast, operators |-> context.operators, macros |-> context.macros]

\* context.ev(ast, localOperators, localMacros): the eval call it makes.
ev(context, ast, localOperators, localMacros) ==
    [mode |-> "eval", node |-> ast,
     operators |-> Spread(context.operators, localOperators),
     macros    |-> Spread(context.macros, localMacros)]

\* The activation of a host macro reducer called as
\* macro(context, body, args, limbs).
HostFrame(reducer, context, body, args, limbs) ==
    [kind |-> "host", reducer |-> reducer, context |-> context,
     body |-> body, args |-> args, limbs |-> limbs, results |-> <<>>, calls |-> 0]

Top == stack[Len(stack)]

Pop(s) == SubSeq(s, 1, Len(s) - 1)

\* An engine that writes into the ambient tables of the reducer it returns
\* to: the frame is put back with the operators of its context emptied.
ReplaceTopClearing(s, frame) ==
    [s EXCEPT ![Len(s)] = IF frame.kind = "host"
                          THEN [frame EXCEPT !.context.operators = EmptyMap]
                          ELSE frame]

ReplaceTop(s, frame) == [s EXCEPT ![Len(s)] = frame]

\* The nodes whose evaluation is in progress in s, the outermost first.
RECURSIVE NodesOf(_)
NodesOf(s) ==
    IF s = <<>> THEN <<>>
    ELSE NodesOf(Pop(s)) \o IF s[Len(s)].kind \in {"operation", "macro"}
                            THEN <<s[Len(s)].node>> ELSE <<>>

\* History: a reducer threw e while the nodes were being evaluated.
ThrowEvent(e, nodes) == [type |-> "throw", error |-> e, nodes |-> nodes]

EvalEvent(c, depth) ==
    [type |-> "eval", node |-> c.node, operators |-> c.operators, macros |-> c.macros,
     depth |-> depth]

\* compile line 599.
Parse ==
    /\ pc = "start"
    /\ LET r == parseScript(src)
       IN  IF r.err
           THEN /\ pc' = "failed"
                /\ result' = [status |-> "threw", error |-> r.error, during |-> "parse"]
                /\ asts' = asts
           ELSE /\ pc' = "parsed"
                /\ asts' = r.val
                /\ result' = result
    /\ UNCHANGED <<operators, macros, src, host, stack, ctl, trace>>

\* A call of the script reducer that passes the statements as args too.
ScriptCallWithArgs(statements) ==
    [kind |-> "host", reducer |-> [kind |-> "host", tag |-> "script"],
     context |-> [operators |-> [n \in {} |-> {}], macros |-> [n \in {} |-> {}]],
     body |-> statements, args |-> statements, limbs |-> [n \in {} |-> {}],
     results |-> <<>>, calls |-> 0]

\* compile line 611: scriptMacro(this.makeContext(defaultOperators, defaultMacros), asts, [], {})
ScriptCall(statements) ==
    HostFrame(ScriptReducer, makeContext(DefaultScopes.operators, DefaultScopes.macros),
              statements, <<>>, EmptyMap)

CallScript ==
    /\ pc = "parsed"
    /\ pc' = "running"
    /\ stack' = <<ScriptCall(asts)>>
    /\ ctl' = [mode |-> "host"]
    /\ trace' = Append(trace, [type |-> "script", call |-> ScriptCall(asts)])
    /\ UNCHANGED <<operators, macros, src, host, asts, result>>

\* eval, case "literal": return this.lift(ast.value); lift may throw.
EvalLiteral ==
    /\ ctl.mode = "eval"
    /\ ctl.node.type = "literal"
    /\ \E ok \in IF host.mayThrow THEN BOOLEAN ELSE {TRUE} :
          ctl' = IF ok THEN [mode |-> "return", value |-> Lifted(ctl.node.value)]
                 ELSE [mode |-> "throw", error |-> Thrown(<<"lift failed">>)]
    /\ trace' = trace \o <<EvalEvent(ctl, Len(stack)), [type |-> "lift", value |-> ctl.node.value]>>
    /\ UNCHANGED <<operators, macros, src, host, pc, asts, stack, result>>

\* An operands.map that goes from the last operand to the first.
NextOperandFromRight(frame) ==
    IF Len(frame.vals) < Len(frame.node.operands)
    THEN [mode |-> "eval", node |-> frame.node.operands[Len(frame.node.operands) - Len(frame.vals)],
          operators |-> frame.operators, macros |-> frame.macros]
    ELSE [mode |-> "apply"]

\* The next thing an operation's activation does: evaluate the operand after
\* those already evaluated (operands.map, left to right), or apply the operator.
NextOperand(frame) ==
    IF Len(frame.vals) < Len(frame.node.operands)
    THEN [mode |-> "eval", node |-> frame.node.operands[Len(frame.vals) + 1],
          operators |-> frame.operators, macros |-> frame.macros]
    ELSE [mode |-> "apply"]

OperationFrame(c) ==
    [kind |-> "operation", node |-> c.node, operators |-> c.operators,
     macros |-> c.macros, vals |-> <<>>]

\* eval, case "operation", entering the try block.
EvalOperation ==
    /\ ctl.mode = "eval"
    /\ ctl.node.type = "operation"
    /\ stack' = Append(stack, OperationFrame(ctl))
    /\ ctl' = NextOperand(OperationFrame(ctl))
    /\ trace' = Append(trace, EvalEvent(ctl, Len(stack)))
    /\ UNCHANGED <<operators, macros, src, host, pc, asts, result>>

\* An operand's value comes back into operands.map.
OperandReturn ==
    /\ ctl.mode = "return"
    /\ stack # <<>>
    /\ Top.kind = "operation"
    /\ LET frame == [Top EXCEPT !.vals = Append(@, ctl.value)]
       IN  /\ stack' = ReplaceTop(stack, frame)
           /\ ctl' = NextOperand(frame)
    /\ UNCHANGED <<operators, macros, src, host, pc, asts, trace, result>>

\* What a default reducer of compile throws (lines 603 and 608).
NotLegal(reducer) ==
    Thrown(<<IF reducer.kind = "defaultOperator" THEN "This use of operator '"
             ELSE "This use of macro '",
             reducer.tag, "' is not legal here.">>)

\* What operator(evaluatedOperands) can do, operator being scope[name]: the
\* outcomes, each [threw, value or error, called].  An absent entry is
\* undefined, and calling it is a TypeError; a default reducer throws; a host
\* reducer returns or, if the host's reducers may throw, throws.
ReducerOutcomes(scope, name, args) ==
    IF name \notin DOMAIN scope
    THEN {[threw |-> TRUE, called |-> FALSE,
           error |-> Thrown(<<"TypeError: operator is not a function">>)]}
    ELSE IF scope[name].kind # "host"
    THEN {[threw |-> TRUE, called |-> TRUE, error |-> NotLegal(scope[name])]}
    ELSE {[threw |-> FALSE, called |-> TRUE, value |-> Reduced(scope[name], args)]}
         \cup IF host.mayThrow
              THEN {[threw |-> TRUE, called |-> TRUE, error |-> Thrown(<<"host error">>)]}
              ELSE {}

\* eval lines 574-576: operator(evaluatedOperands), and the catch around it.
ApplyOperator ==
    /\ ctl.mode = "apply"
    /\ \E o \in ReducerOutcomes(Top.operators, Top.node.operator, Top.vals) :
          /\ ctl' = IF o.threw
                    THEN [mode |-> "throw", error |-> throwWith(Top.node.metadata, o.error)]
                    ELSE [mode |-> "return", value |-> o.value]
          /\ trace' = trace
                       \o (IF o.called
                           THEN <<[type |-> "apply", node |-> Top.node,
                                   reducer |-> Top.operators[Top.node.operator],
                                   args |-> Top.vals, depth |-> Len(stack) - 1]>>
                           ELSE <<>>)
                       \o (IF o.threw THEN <<ThrowEvent(o.error, NodesOf(stack))>> ELSE <<>>)
    /\ stack' = Pop(stack)
    /\ UNCHANGED <<operators, macros, src, host, pc, asts, result>>

\* eval lines 575-577: an operand's evaluation threw.
OperationCatch ==
    /\ ctl.mode = "throw"
    /\ stack # <<>>
    /\ Top.kind = "operation"
    /\ ctl' = [mode |-> "throw", error |-> throwWith(Top.node.metadata, ctl.error)]
    /\ stack' = Pop(stack)
    /\ UNCHANGED <<operators, macros, src, host, pc, asts, trace, result>>

\* eval, case "macro" (lines 560-567): the reducer is called with the node's
\* members as they are and a context made of the current scope.  A host
\* reducer then runs; an absent entry (a TypeError) or a default reducer
\* throws at once, and the catch puts the node's header before the error.
EvalMacro ==
    /\ ctl.mode = "eval"
    /\ ctl.node.type = "macro"
    /\ LET node == ctl.node
           bound == node.name \in DOMAIN ctl.macros
           reducer == ctl.macros[node.name]
           call == HostFrame(reducer, makeContext(ctl.operators, ctl.macros),
                             node.body, node.args, node.limbs)
           e == IF bound THEN NotLegal(reducer)
                ELSE Thrown(<<"TypeError: macro is not a function">>)
       IN  IF bound /\ reducer.kind = "host"
           THEN /\ stack' = stack \o <<[kind |-> "macro", node |-> node], call>>
                /\ ctl' = [mode |-> "host"]
                /\ trace' = trace \o <<EvalEvent(ctl, Len(stack)),
                                       [type |-> "macro", node |-> node, call |-> call]>>
           ELSE /\ stack' = stack
                /\ ctl' = [mode |-> "throw", error |-> throwWith(node.metadata, e)]
                /\ trace' = trace \o <<EvalEvent(ctl, Len(stack))>>
                            \o (IF bound THEN <<[type |-> "macro", node |-> node, call |-> call]>>
                                ELSE <<>>)
                            \o <<ThrowEvent(e, Append(NodesOf(stack), node))>>
    /\ UNCHANGED <<operators, macros, src, host, pc, asts, result>>

\* The reducer returned: eval returns its value (line 564).
MacroReturn ==
    /\ ctl.mode = "return"
    /\ stack # <<>>
    /\ Top.kind = "macro"
    /\ stack' = Pop(stack)
    /\ UNCHANGED <<operators, macros, src, host, pc, asts, ctl, trace, result>>

\* The reducer threw: throwWith(metadata1, e) (lines 565-567).
MacroCatch ==
    /\ ctl.mode = "throw"
    /\ stack # <<>>
    /\ Top.kind = "macro"
    /\ ctl' = [mode |-> "throw", error |-> throwWith(Top.node.metadata, ctl.error)]
    /\ stack' = Pop(stack)
    /\ UNCHANGED <<operators, macros, src, host, pc, asts, trace, result>>

\* The statements a reducer holds: its body, its args and its limbs' statements.
Members(frame) ==
    {frame.body[k] : k \in 1..Len(frame.body)}
    \cup {frame.args[k] : k \in 1..Len(frame.args)}
    \cup UNION {{frame.limbs[l][k] : k \in 1..Len(frame.limbs[l])} : l \in DOMAIN frame.limbs}

\* A host reducer calls context.ev(ast, localOperators, localMacros).
HostEv ==
    /\ ctl.mode = "host"
    /\ Top.calls < host.evCalls
    /\ \E ast \in Members(Top), locals \in host.tables[Top.reducer.tag] :
          LET localOperators == locals.operators
              localMacros == locals.macros
          IN
          /\ stack' = ReplaceTop(stack, [Top EXCEPT !.calls = @ + 1])
                      \o <<[kind |-> "ev", ast |-> ast, localOperators |-> localOperators,
                            localMacros |-> localMacros]>>
          /\ ctl' = ev(Top.context, ast, localOperators, localMacros)
          /\ trace' = Append(trace, [type |-> "ev", ast |-> ast,
                                     localOperators |-> localOperators,
                                     localMacros |-> localMacros, depth |-> Len(stack)])
    /\ UNCHANGED <<operators, macros, src, host, pc, asts, result>>

\* ev returns to the reducer that called it.
EvReturn ==
    /\ ctl.mode = "return"
    /\ stack # <<>>
    /\ Top.kind = "ev"
    /\ stack' = ReplaceTop(Pop(stack), [stack[Len(stack) - 1] EXCEPT !.results = Append(@, ctl.value)])
    /\ ctl' = [mode |-> "host"]
    /\ UNCHANGED <<operators, macros, src, host, pc, asts, trace, result>>

\* ev threw and the reducer that called it has no try around the call.
HostPropagate ==
    /\ ctl.mode = "throw"
    /\ stack # <<>>
    /\ Top.kind = "ev"
    /\ stack' = Pop(Pop(stack))
    /\ UNCHANGED <<operators, macros, src, host, pc, asts, ctl, trace, result>>

\* ev threw inside a try of the reducer, which goes on.
HostCatch ==
    /\ ctl.mode = "throw"
    /\ stack # <<>>
    /\ Top.kind = "ev"
    /\ host.mayCatch
    /\ stack' = ReplaceTop(Pop(stack),
                           [stack[Len(stack) - 1] EXCEPT !.results = Append(@, [caught |-> ctl.error])])
    /\ ctl' = [mode |-> "host"]
    /\ UNCHANGED <<operators, macros, src, host, pc, asts, trace, result>>

\* A host reducer returns.
HostReturn ==
    /\ ctl.mode = "host"
    /\ ctl' = [mode |-> "return", value |-> Reduced(Top.reducer, Top.results)]
    /\ stack' = Pop(stack)
    /\ trace' = IF Len(stack) = 1
                THEN Append(trace, [type |-> "scriptReturn", value |-> Reduced(Top.reducer, Top.results)])
                ELSE trace
    /\ UNCHANGED <<operators, macros, src, host, pc, asts, result>>

\* A host reducer throws.
HostThrow ==
    /\ ctl.mode = "host"
    /\ host.mayThrow
    /\ ctl' = [mode |-> "throw", error |-> Thrown(<<"host error">>)]
    /\ stack' = Pop(stack)
    /\ trace' = Append(trace, ThrowEvent(Thrown(<<"host error">>), NodesOf(stack)))
    /\ UNCHANGED <<operators, macros, src, host, pc, asts, result>>

\* compile returns what scriptMacro returned (line 611).
CompileReturn ==
    /\ ctl.mode = "return"
    /\ stack = <<>>
    /\ pc' = "done"
    /\ result' = [status |-> "returned", value |-> ctl.value]
    /\ ctl' = [mode |-> "idle"]
    /\ UNCHANGED <<operators, macros, src, host, asts, stack, trace>>

\* scriptMacro threw: compile has no try around the call.
CompileThrow ==
    /\ ctl.mode = "throw"
    /\ stack = <<>>
    /\ pc' = "failed"
    /\ result' = [status |-> "threw", error |-> ctl.error, during |-> "eval"]
    /\ ctl' = [mode |-> "idle"]
    /\ UNCHANGED <<operators, macros, src, host, asts, stack, trace>>

Next ==
    \/ Parse
    \/ CallScript
    \/ EvalLiteral
    \/ EvalOperation
    \/ OperandReturn
    \/ ApplyOperator
    \/ OperationCatch
    \/ EvalMacro
    \/ MacroReturn
    \/ MacroCatch
    \/ HostEv
    \/ EvReturn
    \/ HostPropagate
    \/ HostCatch
    \/ HostReturn
    \/ HostThrow
    \/ CompileReturn
    \/ CompileThrow

(***************************************************************************)
(* The hosts and the sources of the model                                  *)
(***************************************************************************)

\* The sequences over alphabet of length at most n.
RECURSIVE Strings(_, _)
Strings(alphabet, n) ==
    IF n = 0 THEN {<<>>}
    ELSE LET shorter == Strings(alphabet, n - 1)
         IN  shorter \cup {Append(s, c) : s \in {t \in shorter : Len(t) = n - 1}, c \in alphabet}

\* The declarations given to the constructor: the sugar operators in the
\* tightest group, then `*`, then `+` and `-`, then #bind; `+` and `*` take one or
\* two operands, `-` exactly two.
OpDeclarations ==
    <<
      << [name |-> numberOp, arity |-> <<1>>], [name |-> nameOp, arity |-> <<1>>],
         [name |-> stringOp, arity |-> <<1, Infinity>>],
         [name |-> callOp, arity |-> <<1, 2>>], [name |-> indexOp, arity |-> <<2>>] >>,
      << [name |-> <<"*">>, arity |-> <<1, 2>>] >>,
      << [name |-> <<"+">>, arity |-> <<1, 2>>], [name |-> <<"-">>, arity |-> <<2>>] >>,
      << [name |-> bindOp, arity |-> <<2>>] >>
    >>

\* A macro m of one or two arguments with a limb e, and the silent macro.
MacroDeclarations ==
    << [name |-> <<"m">>, arity |-> <<1, 2>>, limbs |-> << <<"e">> >>],
       [name |-> <<>>, arity |-> <<0>>, limbs |-> <<>>] >>

Registry == constructor(OpDeclarations, MacroDeclarations)

\* Tables of host reducers, as a script reducer passes to ev: one reducer for
\* every declared operator or macro (made by host part A), and overrides of
\* single names (made by host part B).
AllOperatorsA == [op \in DOMAIN Registry.operators |-> HostReducer("A")]

AllMacrosA == [macro \in DOMAIN Registry.macros |-> HostReducer("A")]

Override(tag, name) == [n \in {name} |-> HostReducer(tag)]

\* The tables a reducer passes in one call of ev.
Locals(localOperators, localMacros) == [operators |-> localOperators, macros |-> localMacros]

\* Every macro reducer of the host, the script reducer included, passes a
\* reducer for every declared name.
FullTables == [tag \in {"script", "A"} |-> {Locals(AllOperatorsA, AllMacrosA)}]

\* The number of ev calls one activation of a reducer makes at most, in a
\* host that passes the full tables.
MaxEvCallsFull == 1

\* A host whose reducers never throw.
QuietHost ==
    [evCalls |-> MaxEvCallsFull, mayThrow |-> FALSE, mayCatch |-> FALSE, tables |-> FullTables]

\* A host whose lift and reducers may throw, and whose macro reducers may catch
\* what ev throws.
ThrowingHost ==
    [evCalls |-> MaxEvCallsFull, mayThrow |-> TRUE, mayCatch |-> TRUE, tables |-> FullTables]

\* A host whose reducers pass nothing to ev.
BareHost ==
    [evCalls |-> MaxEvCallsFull, mayThrow |-> FALSE, mayCatch |-> FALSE,
     tables |-> [tag \in {"script", "A"} |-> {Locals(EmptyMap, EmptyMap)}]]

\* The number of ev calls one activation of a reducer makes at most, in a
\* host that overrides.
MaxEvCalls == 2

\* A host whose script reducer passes a reducer for every declared name, of
\* its part A, or with the `+` of its part B in the place of A's, and whose
\* macro reducers pass nothing or the `+` of part C.
ScopingHost ==
    [evCalls |-> MaxEvCalls, mayThrow |-> FALSE, mayCatch |-> FALSE,
     tables |-> [tag \in {"script", "A"} |->
                    IF tag = "script"
                    THEN {Locals(AllOperatorsA, AllMacrosA),
                          Locals(Spread(AllOperatorsA, Override("B", <<"+">>)), AllMacrosA)}
                    ELSE {Locals(EmptyMap, EmptyMap),
                          Locals(Override("C", <<"+">>), EmptyMap)}]]

\* The state in which compile(src) is called on a compiler constructed with
\* the declarations, for a source and a host of the given sets.
InitWith(sources, hosts) ==
    /\ operators = Registry.operators
    /\ macros = Registry.macros
    /\ src \in sources
    /\ host \in hosts
    /\ pc = "start"
    /\ asts = <<>>
    /\ stack = <<>>
    /\ ctl = [mode |-> "idle"]
    /\ trace = <<>>
    /\ result = [status |-> "none"]

\* The longest generated expression source.
MaxExprLen == 6

ExprAlphabet == {"a", "+", "-", "*", " "}

ExprSources == Strings(ExprAlphabet, MaxExprLen)

\* Expressions of four and five operands and the unary uses of the README.
LongExprSources ==
    { <<"a", "+", "1", "*", "a", "-", "1">>,
      <<"a", "*", "1", "-", "a", "*", "1", "+", "a">>,
      <<"1", " ", "*", " ", "+", "1">>,
      <<"+", "1", " ", "*", " ", "1">>,
      <<"-", "1">> }

\* A macro with an argument.
MacroSource == <<"m", "(", "1", ")", "{", "}">>

InitExpr ==
    \/ InitWith(ExprSources \cup LongExprSources, {QuietHost})
    \/ InitWith({MacroSource}, {ThrowingHost})

SpecExpr == InitExpr /\ [][Next]_vars

\* The longest generated source with macros, calls and statements.
MaxParseLen == 4

ParseAlphabet == {"a", "+", "-", "m", "(", ")", "{", "}", ";"}

ParseSources == Strings(ParseAlphabet, MaxParseLen)

\* Sources written out: packs, strings, calls and indexings, a bound macro,
\* limbs, the silent macro, a macro with too many arguments, an unknown macro.
WrittenSources ==
    { <<"[", "+", " ", "a", ";", "1", "]">>,
      <<"[", "+", " ", "a", ";", "1", ";", "a", "]">>,
      <<"\"", "a", "{", "1", "}", "b", "\"">>,
      <<"a", "(", "1", ")">>,
      <<"a", "+", "a", "[", "1", "]">>,
      <<"m", " ", "a", "(", "1", ")", "{", "}">>,
      <<"m", "(", "1", ")", "{", "a", "}", "e", "{", "1", "}">>,
      <<"{", "a", "}", ";", "1", ".", "1">>,
      <<"m", "(", "a", ";", "a", ";", "a", ")", "{", "}">>,
      <<"u", "(", "1", ")", "{", "}">>,
      <<"a", " ", "%", " ", "a">>,
      <<"a", " ", ";", " ", "1", " ", ";", " ">> }

InitParse ==
    \/ InitWith(ParseSources \cup WrittenSources, {QuietHost})
    \/ InitWith({MacroSource}, {ThrowingHost})

SpecParse == InitParse /\ [][Next]_vars

\* Two statements, the first a macro whose body is the second.
SiblingSource == <<"m", "(", "1", ")", "{", "a", "+", "1", "}", ";", "a", "+", "1">>

\* An operation in a macro in an operation.
NestedSource == <<"1", "+", "m", "(", "1", ")", "{", "a", "*", "1", "}">>

\* a*1+1-1: an operation whose first operand is an operation too.
ChainSource == <<"a", "*", "1", "+", "1", "-", "1">>

InitEval ==
    \/ InitWith({SiblingSource}, {ScopingHost})
    \/ InitWith({NestedSource, ChainSource, MacroSource}, {ThrowingHost})
    \/ InitWith({MacroSource, <<"1">>}, {BareHost})

SpecEval == InitEval /\ [][Next]_vars

\* A second compiler: call and index groups and `*` and `+` of any number of
\* operands, the hash operator #p in the group of `+`; a macro t with the
\* limbs c and f, a macro v with the limb valueOf, both without arguments.
\* The silent macro is not declared.
hashOp == <<"#", "p">>

valueOfLimb == <<"v", "a", "l", "u", "e", "O", "f">>

WideOpDeclarations ==
    <<
      << [name |-> numberOp, arity |-> <<1>>], [name |-> nameOp, arity |-> <<1>>],
         [name |-> stringOp, arity |-> <<1, Infinity>>],
         [name |-> callOp, arity |-> <<1, Infinity>>],
         [name |-> indexOp, arity |-> <<2, Infinity>>] >>,
      << [name |-> <<"*">>, arity |-> <<0, Infinity>>] >>,
      << [name |-> <<"+">>, arity |-> <<0, Infinity>>],
         [name |-> hashOp, arity |-> <<0, 2>>] >>
    >>

LimbMacroDeclarations ==
    << [name |-> <<"t">>, arity |-> <<0>>, limbs |-> << <<"c">>, <<"f">> >>],
       [name |-> <<"v">>, arity |-> <<0>>, limbs |-> << valueOfLimb >>] >>

WideRegistry == constructor(WideOpDeclarations, LimbMacroDeclarations)

\* A host that never throws and passes a reducer for every name the
\* registry declares.
QuietHostOf(registry) ==
    [evCalls |-> MaxEvCallsFull, mayThrow |-> FALSE, mayCatch |-> FALSE,
     tables |-> [tag \in {"script", "A"} |->
                    {Locals([op \in DOMAIN registry.operators |-> HostReducer("A")],
                            [macro \in DOMAIN registry.macros |-> HostReducer("A")])}]]

\* compile(src) is called on a compiler constructed as the registry says.
InitOf(registry, sources, hosts) ==
    /\ operators = registry.operators
    /\ macros = registry.macros
    /\ src \in sources
    /\ host \in hosts
    /\ pc = "start"
    /\ asts = <<>>
    /\ stack = <<>>
    /\ ctl = [mode |-> "idle"]
    /\ trace = <<>>
    /\ result = [status |-> "none"]

\* The sequences over a set of at most n elements.
RECURSIVE Lists(_, _)
Lists(set, n) ==
    IF n = 0 THEN {<<>>}
    ELSE LET shorter == Lists(set, n - 1)
         IN  shorter \cup {Append(l, x) : l \in {t \in shorter : Len(t) = n - 1}, x \in set}

RECURSIVE Concat(_)
Concat(seqs) == IF seqs = <<>> THEN <<>> ELSE Head(seqs) \o Concat(Tail(seqs))

\* The most limbs written after a macro's body.
MaxLimbs == 3

\* The limb names written: c, f and valueOf are declared (for t, t and v), x is not.
WrittenLimbNames == {<<"c">>, <<"f">>, <<"x">>, valueOfLimb}

\* What is written in the block of a limb: a for c, 1 for f, nothing for the others.
LimbBlock(name) ==
    IF name = <<"c">> THEN <<"{", "a", "}">>
    ELSE IF name = <<"f">> THEN <<"{", "1", "}">>
    ELSE <<"{", "}">>

\* macro{} followed by the limbs of the given names, each with its block.
LimbSource(macro, names) ==
    macro \o <<"{", "}">> \o Concat([k \in 1..Len(names) |-> names[k] \o LimbBlock(names[k])])

LimbSources ==
    {LimbSource(macro, names) : macro \in {<<"t">>, <<"v">>}, names \in Lists(WrittenLimbNames, MaxLimbs)}

\* Blocks without a name before them: {}, {a}, {a;1} and { a }.
SilentSources ==
    { <<"{", "}">>, <<"{", "a", "}">>, <<"{", "a", ";", "1", "}">>, <<"{", " ", "a", " ", "}">> }

InitLimbs ==
    \/ InitOf(WideRegistry, LimbSources \cup SilentSources, {QuietHostOf(WideRegistry)})
    \/ InitWith(SilentSources, {QuietHost})
    \/ InitWith({MacroSource}, {ThrowingHost})

SpecLimbs == InitLimbs /\ [][Next]_vars

\* The uses of the hash operator #p: unary prefix, binary infix, the nullary
\* and the binary prefix pack.
HashUnary == <<"#", "p", " ", "1">>

HashBinary == <<"a", " ", "#", "p", " ", "a">>

HashNullaryPack == <<"[", "#", "p", "]">>

HashPack == <<"[", "#", "p", " ", "1", ";", "a", "]">>

HashSources == {HashUnary, HashBinary, HashNullaryPack, HashPack}

\* The longest generated text between the brackets of a pack.
MaxPackLen == 5

PackAlphabet == {"1", "+", "*", ";"}

PackInners == Strings(PackAlphabet, MaxPackLen)

\* What follows the closing bracket of a generated pack: nothing, or `;`.
PackTails == {<<>>, <<";">>}

PackSources == {<<"[">> \o inner \o <<"]">> \o tail : inner \in PackInners, tail \in PackTails}

\* Packs written out, with whitespace and names: the README's [1 + 2 + 3]
\* (as a statement, with a dangling operator), its mixed [1 + 2*3 + 4], [0],
\* [+ 1; 2; 3], and packs with the operator alone.
InfixOfThree == <<"[", "1", " ", "+", " ", "2", " ", "+", " ", "3", "]">>

InfixOfThreeDangling == <<"[", "1", " ", "+", " ", "2", " ", "+", " ", "3", " ", "+", "]">>

InfixMixed == <<"[", "1", " ", "+", " ", "2", "*", "3", " ", "+", " ", "4", "]">>

PrefixOfThree == <<"[", "+", " ", "1", ";", " ", "2", ";", " ", "3", "]">>

WrittenPackSources ==
    { InfixOfThree, InfixOfThree \o <<";">>, InfixOfThreeDangling, InfixMixed,
      <<"[", "0", "]">>, <<"[", " ", "]">>,
      <<"[", "a", " ", "*", " ", "1", "]", ";", "a">>,
      PrefixOfThree, PrefixOfThree \o <<";">>,
      <<"[", " ", "*", " ", "a", " ", "+", " ", "1", " ", ";", " ", "a", " ", ";", " ", "]">>,
      <<"[", " ", "+", " ", "]">>,
      <<"+", "1">> }

\* Prefix packs of no, two and three operands, for the compiler whose `+`
\* takes one or two operands.
CountedPackSources ==
    { <<"[", "+", "]">>, <<"[", "+", "1", ";", "a", "]">>, <<"[", "+", "1", ";", "a", ";", "1", "]">> }

InitPacks ==
    \/ InitOf(WideRegistry, PackSources \cup WrittenPackSources \cup HashSources,
              {QuietHostOf(WideRegistry)})
    \/ InitWith(CountedPackSources, {QuietHost})
    \/ InitWith({MacroSource}, {ThrowingHost})

SpecPacks == InitPacks /\ [][Next]_vars

\* The longest generated text between the quotes of a string.
MaxStringLen == 6

StringAlphabet == {"a", "{", "}"}

StringSources == {<<"\"">> \o inner \o <<"\"">> : inner \in Strings(StringAlphabet, MaxStringLen)}

\* Strings written out: the README's "a{1}b" and "{x}", the empty string, two
\* interpolations side by side, and text around them.
WrittenStringSources ==
    { <<"\"", "a", "{", "1", "}", "b", "\"">>,
      <<"\"", "{", "x", "}", "\"">>,
      <<"\"", "\"">>,
      <<"\"", "{", "a", "}", "{", "1", "}", "\"">>,
      <<"\"", "a", "{", "1", "+", "a", "}", "b", "{", "a", "}", "\"">> }

\* The longest generated source of brackets and digits.
MaxCommentLen == 7

CommentAlphabet == {"[", "]", "1"}

CommentSources == Strings(CommentAlphabet, MaxCommentLen)

\* Comments written out: before an expression, inside it, at the end of the
\* script, nested, and never closed.
CommentThenSum == <<"[", "[", "c", "]", "]", "1", "+", "1">>

SumThenComment ==
    <<"1", "+", "1", ";", " ", "[", "[", " ", "n", "o", "t", "e", " ", "]", "]">>

WrittenCommentSources ==
    { CommentThenSum, SumThenComment,
      <<"[", "[", "c", "]", "]", " ", "1", "+", "1">>,
      <<"1", " ", "[", "[", "c", "]", "]", " ", "+", " ", "1">>,
      <<"[", "[", " ", "a", " ", "[", "[", " ", "b", " ", "]", "]", " ", "c", " ", "]", "]", " ", "1">>,
      <<"[", "[", " ", "a", " ", "[", "[", " ", "b", " ", "]", "]", "]", "]", " ", "1">>,
      <<"1", " ", "[", "[", " ", "a", " ", "[", "[", " ", "b", " ", "]", "]", " ", "c">>,
      <<"1", ";", " ", "[", "[", "c", "]", "]", " ", ";", " ", "a">> }

\* The longest generated text of blanks, letters and brackets between quotes.
MaxRawLen == 4

RawAlphabet == {" ", "a", "[", "]"}

RawStringSources == {<<"\"">> \o inner \o <<"\"">> : inner \in Strings(RawAlphabet, MaxRawLen)}

InitText ==
    \/ InitWith(StringSources \cup WrittenStringSources \cup RawStringSources, {QuietHost})
    \/ InitWith(CommentSources \cup WrittenCommentSources, {QuietHost})
    \/ InitWith({MacroSource}, {ThrowingHost})

SpecText == InitText /\ [][Next]_vars

\* A third compiler: calls, indexings, `*` and `+` of any number of operands,
\* a macro m of any number of arguments with the limb e, the silent macro.
SeqOpDeclarations ==
    <<
      << [name |-> numberOp, arity |-> <<1>>], [name |-> nameOp, arity |-> <<1>>],
         [name |-> stringOp, arity |-> <<1, Infinity>>],
         [name |-> callOp, arity |-> <<1, Infinity>>],
         [name |-> indexOp, arity |-> <<1, Infinity>>] >>,
      << [name |-> <<"*">>, arity |-> <<0, Infinity>>] >>,
      << [name |-> <<"+">>, arity |-> <<0, Infinity>>] >>,
      << [name |-> bindOp, arity |-> <<2>>] >>
    >>

SeqMacroDeclarations ==
    << [name |-> <<"m">>, arity |-> <<0, Infinity>>, limbs |-> << <<"e">> >>],
       [name |-> <<>>, arity |-> <<0>>, limbs |-> <<>>] >>

SeqRegistry == constructor(SeqOpDeclarations, SeqMacroDeclarations)

\* The most expressions and semicolons written in a generated sequence.
MaxSeqLen == 5

\* A written sequence: the expressions a and 1 and the semicolons, in order.
SeqBodies == Strings({"a", "1", ";"}, MaxSeqLen)

\* The text of a written sequence: a blank between two expressions that
\* follow each other.
RECURSIVE Spaced(_)
Spaced(body) ==
    IF Len(body) <= 1 THEN body
    ELSE IF body[1] # ";" /\ body[2] # ";"
    THEN <<body[1], " ">> \o Spaced(Tail(body))
    ELSE <<body[1]>> \o Spaced(Tail(body))

\* The places of a sequence: what is written before and after it.
SeqContexts ==
    { [kind |-> "script", before |-> <<>>, after |-> <<>>],
      [kind |-> "args", before |-> <<"m", "(">>, after |-> <<")", "{", "}">>],
      [kind |-> "body", before |-> <<"m", "{">>, after |-> <<"}">>],
      [kind |-> "silent", before |-> <<"{">>, after |-> <<"}">>],
      [kind |-> "limb", before |-> <<"m", "{", "}", "e", "{">>, after |-> <<"}">>],
      [kind |-> "call", before |-> <<"x", "(">>, after |-> <<")">>],
      [kind |-> "callOfNumber", before |-> <<"2", "(">>, after |-> <<")">>],
      [kind |-> "index", before |-> <<"x", "[">>, after |-> <<"]">>],
      [kind |-> "pack", before |-> <<"[", "+", " ">>, after |-> <<"]">>] }

SeqSource(context, body) == context.before \o Spaced(body) \o context.after

SeqSources == {SeqSource(context, body) : context \in SeqContexts, body \in SeqBodies}

\* Sequences written out: blanks between the delimiters, longer expressions.
WrittenSeqSources ==
    { <<"x", "(", " ", ")">>, <<"{", " ", " ", "}">>, <<"m", "(", " ", ")", "{", "}">>,
      <<"a", "+", "1", " ", ";", " ", "1", "*", "a", " ", ";">>,
      <<"a", "+", "1", " ", "1", "*", "a">>,
      <<"x", "(", "a", "+", "1", ";", "1", "*", "a", ")">> }

\* The most call and index groups written after an operand.
MaxGroups == 3

\* The groups written: (), (1), (a;1), [1], [a;1].
PostfixGroups ==
    { [open |-> "(", items |-> <<>>], [open |-> "(", items |-> <<"1">>],
      [open |-> "(", items |-> <<"a", "1">>],
      [open |-> "[", items |-> <<"1">>], [open |-> "[", items |-> <<"a", "1">>] }

\* An operand, a or (a), and the groups that follow it.
PostfixChains ==
    { [operand |-> operand, groups |-> groups] :
        operand \in {<<"a">>, <<"(", "a", ")">>},
        groups \in Lists(PostfixGroups, MaxGroups) \ {<<>>} }

GroupText(group) ==
    <<group.open>>
    \o Concat([k \in 1..Len(group.items) |->
                  IF k = 1 THEN <<group.items[k]>> ELSE <<";", group.items[k]>>])
    \o <<IF group.open = "(" THEN ")" ELSE "]">>

PostfixText(chain) ==
    chain.operand \o Concat([k \in 1..Len(chain.groups) |-> GroupText(chain.groups[k])])

PostfixSources == {PostfixText(chain) : chain \in PostfixChains}

\* Two statements: a or 1, then a statement that begins with a bracket or
\* with a letter, written right after the `;` or after a blank.
LookaheadHeads == {"a", "1"}

LookaheadTails ==
    { <<"(", "b", ")">>, <<"(", "1", ")">>, <<"[", "+", "1", "]">>, <<"[", "+", "]">>,
      <<" ", "(", "b", ")">>, <<"b">>, <<"1", "+", "1">> }

LookaheadSources == { <<head, ";">> \o tail : head \in LookaheadHeads, tail \in LookaheadTails }

InitSeq ==
    \/ InitOf(SeqRegistry,
              SeqSources \cup WrittenSeqSources \cup PostfixSources \cup LookaheadSources,
              {QuietHostOf(SeqRegistry)})
    \/ InitWith({MacroSource}, {ThrowingHost})

SpecSeq == InitSeq /\ [][Next]_vars

(***************************************************************************)
(* C1: precedence and associativity of binary operators                    *)
(***************************************************************************)

IsInk(c) == c \notin WHITESPACE_CHARS

\* The characters of a source that are not blanks.
Ink(s) == SelectSeq(s, IsInk)

BinaryOperatorChars == {"+", "-", "*"}

OperandChars == {"a", "1"}

\* The source is one-character operands joined by one-character binary
\* operators, with blanks anywhere between them.
BinaryOnly(s) ==
    LET t == Ink(s)
    IN  /\ Len(t) % 2 = 1
        /\ \A k \in 1..Len(t) : IF k % 2 = 1 THEN t[k] \in OperandChars
                                ELSE t[k] \in BinaryOperatorChars
        /\ \A k \in 1..(Len(s) - 1) : ~(s[k] \in OperandChars /\ s[k + 1] \in OperandChars)

\* The group of the declarations, counted from the first, that declares op.
GroupOf(op) ==
    CHOOSE g \in 1..Len(OpDeclarations) :
        \E d \in 1..Len(OpDeclarations[g]) : OpDeclarations[g][d].name = <<op>>

\* The tree of the reference parser for the tokens t[lo..hi]: the root is the
\* rightmost operator among those of the latest declared group.
RECURSIVE RefTree(_, _, _)
RefTree(t, lo, hi) ==
    IF lo = hi THEN [leaf |-> t[lo]]
    ELSE LET ops == {k \in lo..hi : (k - lo) % 2 = 1}
             loosest == {k \in ops : \A l \in ops : GroupOf(t[l]) <= GroupOf(t[k])}
             root == CHOOSE k \in loosest : \A l \in loosest : l <= k
         IN  [op |-> t[root], left |-> RefTree(t, lo, root - 1),
              right |-> RefTree(t, root + 1, hi)]

\* An AST without its metadata: binary and unary operations, and the names
\* and numbers as leaves.
RECURSIVE Shape(_)
Shape(ast) ==
    IF ast.type # "operation" THEN [other |-> ast]
    ELSE IF Len(ast.operands) = 2 /\ Len(ast.operator) = 1
    THEN [op |-> ast.operator[1], left |-> Shape(ast.operands[1]),
          right |-> Shape(ast.operands[2])]
    ELSE IF Len(ast.operands) = 1 /\ Len(ast.operator) = 1
    THEN [op |-> ast.operator[1], arg |-> Shape(ast.operands[1])]
    ELSE IF /\ ast.operator \in {nameOp, numberOp}
            /\ Len(ast.operands) = 1
            /\ ast.operands[1].type = "literal"
            /\ Len(ast.operands[1].value) = 1
    THEN [leaf |-> ast.operands[1].value[1]]
    ELSE [other |-> ast]

\* C1: a source made only of operands joined by declared binary operators
\* parses, to one statement, and its tree is the reference parser's: an
\* operator of an earlier declared group binds tighter, and operators of one
\* group associate to the left.
C1_PrecedenceClimbing ==
    (pc # "start" /\ BinaryOnly(src))
        => /\ Len(asts) = 1
           /\ Shape(asts[1]) = RefTree(Ink(src), 1, Len(Ink(src)))

\* a + a * a - a has been parsed: the tighter `*` sits under `+`, under the later `-`.
C1_Witness ==
    /\ pc = "parsed"
    /\ BinaryOnly(src)
    /\ Len(Ink(src)) >= 5
    /\ \E k \in 1..Len(Ink(src)) : Ink(src)[k] = "*"
    /\ \E k \in 1..Len(Ink(src)) : Ink(src)[k] \in {"+", "-"}
    /\ Len(asts) = 1
    /\ Shape(asts[1]).right # [leaf |-> "a"]

(***************************************************************************)
(* C2: unary operators                                                     *)
(***************************************************************************)

\* The source is made of one-character operands and one-character operators,
\* each operator standing alone, with blanks anywhere between them.
OperandsAndOperators(s) ==
    /\ \A k \in 1..Len(s) : s[k] \in OperandChars \cup BinaryOperatorChars \cup WHITESPACE_CHARS
    /\ \A k \in 1..(Len(s) - 1) :
          /\ ~(s[k] \in OperandChars /\ s[k + 1] \in OperandChars)
          /\ ~(s[k] \in BinaryOperatorChars /\ s[k + 1] \in BinaryOperatorChars)

\* The arity range the host declared for op.
DeclaredArity(op) ==
    LET g == GroupOf(op)
        d == CHOOSE d \in 1..Len(OpDeclarations[g]) : OpDeclarations[g][d].name = <<op>>
    IN  ArityRange(OpDeclarations[g][d].arity)

Accepts(op, n) == DeclaredArity(op)[1] <= n /\ n <= DeclaredArity(op)[2]

\* The reference parser over tokens.  The threshold is a group: an operator
\* goes on only if its group was declared before it.  The operand of a unary
\* operator is the expression parsed with the operator's own group as
\* threshold.
RECURSIVE RefExpression(_, _, _)
RECURSIVE RefLoop(_, _, _, _)
RefLoop(t, left, pos, threshold) ==
    IF pos <= Len(t) /\ t[pos] \in BinaryOperatorChars /\ GroupOf(t[pos]) < threshold
    THEN LET r == RefExpression(t, pos + 1, GroupOf(t[pos]))
         IN  IF ~r.ok \/ ~Accepts(t[pos], 2) THEN [ok |-> FALSE]
             ELSE RefLoop(t, [op |-> t[pos], left |-> left, right |-> r.tree], r.next, threshold)
    ELSE [ok |-> TRUE, tree |-> left, next |-> pos]

RefExpression(t, pos, threshold) ==
    IF pos > Len(t) THEN [ok |-> FALSE]
    ELSE IF t[pos] \in OperandChars THEN RefLoop(t, [leaf |-> t[pos]], pos + 1, threshold)
    ELSE LET r == RefExpression(t, pos + 1, GroupOf(t[pos]))
         IN  IF ~r.ok \/ ~Accepts(t[pos], 1) THEN [ok |-> FALSE]
             ELSE RefLoop(t, [op |-> t[pos], arg |-> r.tree], r.next, threshold)

\* The reference tree of a whole source, if it has one.
RefParse(s) ==
    LET r == RefExpression(Ink(s), 1, Len(OpDeclarations) + 1)
    IN  IF r.ok /\ r.next = Len(Ink(s)) + 1 THEN r ELSE [ok |-> FALSE]

OneTimesPlusOne == <<"1", " ", "*", " ", "+", "1">>

PlusOneTimesOne == <<"+", "1", " ", "*", " ", "1">>

\* C2: `1 * +1` parses as *(1, +(1)) and `+1 * 1` as +(*(1, 1)); in general a
\* source of operands, binary operators and unary operators parses to the tree
\* in which the operand of a unary operator is the expression parsed with the
\* operator's own precedence as threshold.
C2_UnaryOperators ==
    pc # "start" =>
        /\ src = OneTimesPlusOne =>
              /\ Len(asts) = 1
              /\ Shape(asts[1]) = [op |-> "*", left |-> [leaf |-> "1"],
                                   right |-> [op |-> "+", arg |-> [leaf |-> "1"]]]
        /\ src = PlusOneTimesOne =>
              /\ Len(asts) = 1
              /\ Shape(asts[1]) = [op |-> "+", arg |-> [op |-> "*", left |-> [leaf |-> "1"],
                                                        right |-> [leaf |-> "1"]]]
        /\ (OperandsAndOperators(src) /\ RefParse(src).ok) =>
              /\ Len(asts) = 1
              /\ Shape(asts[1]) = RefParse(src).tree

\* A unary operator followed by a looser binary one has been parsed: * a + a.
C2_Witness ==
    /\ pc = "parsed"
    /\ OperandsAndOperators(src)
    /\ RefParse(src).ok
    /\ Len(Ink(src)) = 4
    /\ Ink(src)[1] = "*"
    /\ Ink(src)[3] = "+"
    /\ Shape(asts[1]) = [op |-> "+", left |-> [op |-> "*", arg |-> [leaf |-> "a"]],
                         right |-> [leaf |-> "a"]]

(***************************************************************************)
(* C3: the operations of an AST are declared and within their arity        *)
(***************************************************************************)

\* Every operation in ast names a declared operator and has a number of
\* operands in its declared range.
RECURSIVE OperationsDeclared(_)
OperationsDeclared(ast) ==
    IF ast.type = "literal" THEN TRUE
    ELSE IF ast.type = "operation"
    THEN /\ ast.operator \in DOMAIN operators
         /\ operators[ast.operator].arity[1] <= Len(ast.operands)
         /\ Len(ast.operands) <= operators[ast.operator].arity[2]
         /\ \A k \in 1..Len(ast.operands) : OperationsDeclared(ast.operands[k])
    ELSE /\ \A k \in 1..Len(ast.body) : OperationsDeclared(ast.body[k])
         /\ \A k \in 1..Len(ast.args) : OperationsDeclared(ast.args[k])
         /\ \A l \in DOMAIN ast.limbs :
               \A k \in 1..Len(ast.limbs[l]) : OperationsDeclared(ast.limbs[l][k])

\* The number of operation nodes in ast.
RECURSIVE CountOperations(_)
RECURSIVE CountOperationsIn(_)
CountOperationsIn(seq) ==
    IF seq = <<>> THEN 0 ELSE CountOperations(Head(seq)) + CountOperationsIn(Tail(seq))

CountOperations(ast) ==
    IF ast.type = "literal" THEN 0
    ELSE IF ast.type = "operation" THEN 1 + CountOperationsIn(ast.operands)
    ELSE CountOperationsIn(ast.body) + CountOperationsIn(ast.args)

\* A unary use of `-`, declared with exactly two operands, and a use of the
\* undeclared `%`.
MinusAlone == <<"-", "a">>

UndeclaredOperator == <<"a", " ", "%", " ", "a">>

PackOfThree == <<"[", "+", " ", "a", ";", "1", ";", "a", "]">>

\* C3: every operation of every AST the parser returned names a declared
\* operator and has an operand count within its declared range; a source
\* that uses an undeclared operator, or a declared one with a count out of
\* its range, is a syntax error.
C3_OperationsDeclared ==
    /\ \A k \in 1..Len(asts) : OperationsDeclared(asts[k])
    /\ (src \in {MinusAlone, UndeclaredOperator, PackOfThree} /\ pc # "start")
          => (result.status = "threw" /\ result.during = "parse" /\ asts = <<>>)

\* A statement with sugar and operator nodes has been parsed.
C3_Witness ==
    /\ pc = "parsed"
    /\ Len(asts) >= 1
    /\ CountOperationsIn(asts) >= 3
    /\ \E k \in 1..Len(asts) : asts[k].type = "operation" /\ asts[k].operator = callOp

(***************************************************************************)
(* C4: a syntax error comes before any evaluation                          *)
(***************************************************************************)

\* m is declared with one or two arguments.
MacroWithThreeArguments == <<"m", "(", "a", ";", "a", ";", "a", ")", "{", "}">>

UnknownMacro == <<"u", "(", "1", ")", "{", "}">>

\* C4: when the source has a syntax error, and a macro called with three
\* arguments for a declared arity of one or two, or an undeclared macro, is
\* one, compile throws that error and nothing is ever evaluated: the script
\* reducer, the operator and macro reducers and lift are never called.
C4_SyntaxErrorBeforeEvaluation ==
    LET parsed == parseScript(src)
    IN
    /\ src \in {MacroWithThreeArguments, UnknownMacro} => parsed.err
    /\ parsed.err =>
          /\ trace = <<>>
          /\ stack = <<>>
          /\ ctl.mode = "idle"
          /\ pc \in {"start", "failed"}
          /\ pc = "failed" => result = [status |-> "threw", error |-> parsed.error,
                                        during |-> "parse"]
    /\ (result.status = "threw" /\ result.during = "parse") => (trace = <<>> /\ pc = "failed")

\* compile has thrown the arity error of m(a;a;a){}.
C4_Witness ==
    /\ src = MacroWithThreeArguments
    /\ pc = "failed"
    /\ result.status = "threw"
    /\ result.during = "parse"
    /\ result.error.msg[1] = "Macro '"
    /\ trace = <<>>

(***************************************************************************)
(* C6: compile calls the script reducer once, with the statements          *)
(***************************************************************************)

IsScriptCall(event) == event.type = "script"

IsScriptReturn(event) == event.type = "scriptReturn"

\* The source has no bracket, brace or quote: its statements are the pieces
\* between the semicolons.
PlainStatements(s) == \A k \in 1..Len(s) : s[k] \notin {"(", ")", "[", "]", "{", "}", "\""}

\* The 0-based indexes at which the pieces between semicolons start, blanks
\* skipped, from position k on; fresh: nothing but blanks since the last semicolon.
RECURSIVE StatementStarts(_, _, _)
StatementStarts(s, k, fresh) ==
    IF k > Len(s) THEN <<>>
    ELSE IF s[k] = ";" THEN StatementStarts(s, k + 1, TRUE)
    ELSE IF fresh /\ IsInk(s[k]) THEN <<k - 1>> \o StatementStarts(s, k + 1, FALSE)
    ELSE StatementStarts(s, k + 1, fresh)

\* C6: compile parses the whole source first, then calls the script reducer
\* exactly once, with the statements in source order as body, one for each
\* piece between semicolons, no args and no limbs, and returns the value the
\* reducer returns.
C6_ScriptReducerCalledOnce ==
    LET calls == SelectSeq(trace, IsScriptCall)
        returns == SelectSeq(trace, IsScriptReturn)
        parsed == parseScript(src)
    IN  /\ Len(calls) <= 1
        /\ pc \in {"start", "parsed"} => trace = <<>>
        /\ pc \in {"running", "done"} => Len(calls) = 1
        /\ calls # <<>> =>
              /\ trace[1] = calls[1]
              /\ ~parsed.err
              /\ calls[1].call.reducer = ScriptReducer
              /\ calls[1].call.body = parsed.val
              /\ calls[1].call.args = <<>>
              /\ calls[1].call.limbs = EmptyMap
              /\ PlainStatements(src) =>
                    [k \in 1..Len(calls[1].call.body) |-> calls[1].call.body[k].metadata.loc]
                        = StatementStarts(src, 1, TRUE)
        /\ pc = "done" =>
              /\ Len(returns) = 1
              /\ result = [status |-> "returned", value |-> returns[1].value]

\* compile has returned the value of the script reducer, called with two statements or more.
C6_Witness ==
    /\ pc = "done"
    /\ result.status = "returned"
    /\ PlainStatements(src)
    /\ Len(StatementStarts(src, 1, TRUE)) >= 2
    /\ Len(SelectSeq(trace, IsScriptCall)) = 1
    /\ Len(trace[1].call.body) >= 2

(***************************************************************************)
(* C5: the extent of a local override                                      *)
(***************************************************************************)

\* The tables of ambient with the entries of local in the place of those of
\* the same name.
Overridden(ambient, local) ==
    [n \in DOMAIN ambient \cup DOMAIN local |-> IF n \in DOMAIN local THEN local[n] ELSE ambient[n]]

\* The scope inside the ev calls in progress among the k first activations:
\* the tables given to the script reducer, overridden by the tables of each
\* call of ev in turn, the innermost last.
RECURSIVE ScopeInside(_, _)
ScopeInside(s, k) ==
    IF k <= 1 THEN [operators |-> s[1].context.operators, macros |-> s[1].context.macros]
    ELSE LET outer == ScopeInside(s, k - 1)
         IN  IF s[k].kind = "ev"
             THEN [operators |-> Overridden(outer.operators, s[k].localOperators),
                   macros |-> Overridden(outer.macros, s[k].localMacros)]
             ELSE outer

\* C5: every node is evaluated, and every operator and macro reducer chosen,
\* in the ambient tables overridden by the local tables of exactly the calls
\* of ev the node is evaluated inside, the innermost winning: an override
\* holds in the whole call, through the contexts of nested macros, and in no
\* sibling call; a name that is not overridden keeps its ambient reducer.
C5_OverrideExtent ==
    /\ ctl.mode = "eval" =>
          [operators |-> ctl.operators, macros |-> ctl.macros] = ScopeInside(stack, Len(stack))
    /\ \A k \in 1..Len(stack) :
          /\ stack[k].kind = "operation" =>
                [operators |-> stack[k].operators, macros |-> stack[k].macros]
                    = ScopeInside(stack, k - 1)
          /\ (stack[k].kind = "host" /\ k > 1) =>
                /\ stack[k].context.operators = ScopeInside(stack, k - 2).operators
                /\ stack[k].context.macros = ScopeInside(stack, k - 2).macros
                /\ stack[k].reducer = ScopeInside(stack, k - 2).macros[stack[k - 1].node.name]
    /\ (/\ ctl.mode = "return"
        /\ trace # <<>>
        /\ trace[Len(trace)].type = "apply"
        /\ trace[Len(trace)].depth = Len(stack))
          => trace[Len(trace)].reducer
                = ScopeInside(stack, Len(stack)).operators[trace[Len(trace)].node.operator]

IsApplyOfPlus(event) == event.type = "apply" /\ event.node.operator = <<"+">>

\* The `+` of the first statement, inside the macro, was reduced by the
\* override B of the script reducer's call, and the `+` of the second
\* statement, in a sibling call without it, by the ambient A.
C5_Witness ==
    LET applies == SelectSeq(trace, IsApplyOfPlus)
    IN  /\ src = SiblingSource
        /\ Len(applies) = 2
        /\ applies[1].node.metadata.loc = 5
        /\ applies[1].reducer = HostReducer("B")
        /\ applies[2].node.metadata.loc = 10
        /\ applies[2].reducer = HostReducer("A")

(***************************************************************************)
(* C7: the evaluation of an operation                                      *)
(***************************************************************************)

HasDepth(event) == "depth" \in DOMAIN event

\* The place in the history where the evaluation begun at j is over: the
\* first later event that is not deeper than it (past the end, if none).
Closing(j) ==
    LET later == {e \in (j + 1)..Len(trace) :
                     HasDepth(trace[e]) /\ trace[e].depth <= trace[j].depth}
    IN  IF later = {} THEN Len(trace) + 1
        ELSE CHOOSE e \in later : \A f \in later : e <= f

\* The eval calls made for the operands of the operation evaluated at j.
OperandEvals(j) ==
    {c \in (j + 1)..(Closing(j) - 1) :
        trace[c].type = "eval" /\ trace[c].depth = trace[j].depth + 1}

\* The i-th of a set of places.
Nth(S, i) == CHOOSE c \in S : Cardinality({x \in S : x < c}) = i - 1

IsMacroNode(node) == node.type = "macro"

\* What the eval call at c returned, c being the evaluation of a literal or
\* of an operation whose reducer returned.
ValueOf(c) ==
    IF trace[c].node.type = "literal" THEN Lifted(trace[c].node.value)
    ELSE Reduced(trace[Closing(c)].reducer, trace[Closing(c)].args)

\* In every evaluation of an operation, the eval calls for its operands are
\* the first operands in order, each once, in the node's scope; its reducer
\* is called only after all of them, once, is the scope's entry for the
\* operator, and gets their values in order.
OperandsThenReducer ==
    /\ \A j \in 1..Len(trace) :
          (trace[j].type = "eval" /\ trace[j].node.type = "operation") =>
             LET node == trace[j].node
                 S == OperandEvals(j)
                 n == Cardinality(S)
                 close == Closing(j)
             IN  /\ n <= Len(node.operands)
                 /\ \A i \in 1..n :
                       /\ trace[Nth(S, i)].node = node.operands[i]
                       /\ trace[Nth(S, i)].operators = trace[j].operators
                       /\ trace[Nth(S, i)].macros = trace[j].macros
                 /\ (/\ close <= Len(trace)
                     /\ trace[close].type = "apply"
                     /\ trace[close].depth = trace[j].depth) =>
                       /\ trace[close].node = node
                       /\ n = Len(node.operands)
                       /\ trace[close].reducer = trace[j].operators[node.operator]
                       /\ Len(trace[close].args) = n
                       /\ \A i \in 1..n :
                             ~IsMacroNode(node.operands[i]) =>
                                trace[close].args[i] = ValueOf(Nth(S, i))
    /\ \A a \in 1..Len(trace) :
          trace[a].type = "apply" =>
             \E j \in 1..(a - 1) :
                /\ trace[j].type = "eval"
                /\ trace[j].node = trace[a].node
                /\ trace[j].depth = trace[a].depth
                /\ Closing(j) = a

\* An error that reaches an operation from one of its operands leaves the
\* operation at once: no eval call, no reducer call.
ThrowLeavesOperation ==
    (ctl.mode = "throw" /\ stack # <<>> /\ Top.kind = "operation") =>
        /\ trace' = trace
        /\ stack' = Pop(stack)
        /\ ctl'.mode = "throw"

\* C7: to evaluate an operation node the engine evaluates each operand
\* exactly once, left to right, in the node's scope, and only then calls the
\* reducer the scope has for the operator, exactly once, with the operands'
\* values in order; when an operand's evaluation throws, no later operand is
\* evaluated and the reducer is not called.
C7_OperandsOnceInOrder == []OperandsThenReducer /\ [][ThrowLeavesOperation]_vars

IsBinaryApply(event) == event.type = "apply" /\ Len(event.args) = 2

\* a*1+1-1: `*` was reduced with its two values, then the second operand of
\* `+` threw, and the error is in `-`, whose second operand is still to come.
C7_Witness ==
    /\ src = ChainSource
    /\ ctl.mode = "throw"
    /\ stack # <<>>
    /\ Top.kind = "operation"
    /\ Top.node.operator = <<"-">>
    /\ Top.vals = <<>>
    /\ Len(SelectSeq(trace, IsBinaryApply)) = 1

(***************************************************************************)
(* C8: the evaluation of a macro                                           *)
(***************************************************************************)

\* The call macro(context, body, args, limbs) that the history has at k is
\* the one call for the macro node whose eval call is just before it: the
\* reducer is the scope's entry for the node's name, the members are the
\* node's own, and the context holds the scope of the eval call.
IsCallOfReducer(k) ==
    /\ k > 1
    /\ trace[k - 1].type = "eval"
    /\ trace[k - 1].node = trace[k].node
    /\ trace[k].node.type = "macro"
    /\ trace[k].call.kind = "host"
    /\ trace[k].call.reducer = trace[k - 1].macros[trace[k].node.name]
    /\ trace[k].call.body = trace[k].node.body
    /\ trace[k].call.args = trace[k].node.args
    /\ trace[k].call.limbs = trace[k].node.limbs
    /\ trace[k].call.context.operators = trace[k - 1].operators
    /\ trace[k].call.context.macros = trace[k - 1].macros

\* The eval call at k was asked for: by the ev call just before it, for the
\* AST ev was given, or by the evaluation of the operation it is an operand
\* of.
IsAskedFor(k) ==
    \/ /\ k > 1
       /\ trace[k - 1].type = "ev"
       /\ trace[k - 1].ast = trace[k].node
       /\ trace[k - 1].depth + 1 = trace[k].depth
    \/ \E j \in 1..(k - 1) :
          /\ trace[j].type = "eval"
          /\ trace[j].node.type = "operation"
          /\ k \in OperandEvals(j)
          /\ \E i \in 1..Len(trace[j].node.operands) : trace[j].node.operands[i] = trace[k].node

\* C8: to evaluate a macro node the engine calls, exactly once, the reducer
\* the scope has for its name, with the node's args, body and limbs
\* unevaluated and a context made of the current scope; on its own it
\* evaluates none of the node's children: every eval call, and so every lift
\* and every reducer call, is for an AST some reducer gave to ev or for an
\* operand of an operation being evaluated.
C8_MacroReducerCalledOnce ==
    /\ \A k \in 1..Len(trace) :
          /\ trace[k].type = "macro" => IsCallOfReducer(k)
          /\ (/\ trace[k].type = "eval"
              /\ trace[k].node.type = "macro"
              /\ trace[k].node.name \in DOMAIN trace[k].macros) =>
                 /\ k < Len(trace)
                 /\ trace[k + 1].type = "macro"
          /\ trace[k].type = "eval" => IsAskedFor(k)
          /\ trace[k].type = "lift" =>
                /\ k > 1
                /\ trace[k - 1].type = "eval"
                /\ trace[k - 1].node.type = "literal"
                /\ trace[k - 1].node.value = trace[k].value
    /\ ctl.mode = "eval" =>
          /\ stack # <<>>
          /\ \/ Top.kind = "ev" /\ Top.ast = ctl.node
             \/ /\ Top.kind = "operation"
                /\ \E i \in 1..Len(Top.node.operands) : Top.node.operands[i] = ctl.node

IsMacroCall(event) == event.type = "macro"

\* 1+m(1){a*1}: the reducer of m was called with an arg and a body, inside
\* the evaluation of `+`, has so far called ev once (on one of them), and
\* no second call of it was made.
C8_Witness ==
    /\ src = NestedSource
    /\ Len(SelectSeq(trace, IsMacroCall)) = 1
    /\ SelectSeq(trace, IsMacroCall)[1].call.args # <<>>
    /\ SelectSeq(trace, IsMacroCall)[1].call.body # <<>>
    /\ SelectSeq(trace, IsMacroCall)[1].call.context.operators[<<"+">>] = HostReducer("A")
    /\ ctl.mode = "return"
    /\ stack # <<>>
    /\ Top.kind = "ev"
    /\ stack[Len(stack) - 1].kind = "host"
    /\ stack[Len(stack) - 1].reducer = HostReducer("A")

(***************************************************************************)
(* C9: the headers of an error                                             *)
(***************************************************************************)

\* The last event of the history is a reducer's throw, and its error is
\* leaving the outermost ev call, the one the script reducer made.
ThrowLeavesOutermostEv ==
    /\ ctl.mode = "throw"
    /\ Len(stack) = 2
    /\ Top.kind = "ev"
    /\ trace[Len(trace)].type = "throw"

\* `At (line, column) : "<first line of the node's excerpt>" :` for a node.
HeaderOfNode(node) ==
    [line    |-> CountNewlines(Substring(node.metadata.src, 0, node.metadata.loc)) + 1,
     column  |-> LastLineLength(Substring(node.metadata.src, 0, node.metadata.loc)) + 1,
     excerpt |-> FirstLine(node.metadata.excerpt)]

\* C9: when a reducer throws a message while a node is evaluated under k
\* enclosing operation and macro nodes, the error that leaves the outermost
\* ev is the message preceded by exactly k+1 headers, one for each of these
\* nodes, from the outermost node first to the failing node last.
C9_HeadersOutermostFirst ==
    ThrowLeavesOutermostEv =>
        LET thrown == trace[Len(trace)]
        IN  /\ ctl.error.msg = thrown.error.msg
            /\ Len(ctl.error.headers) = Len(thrown.nodes)
            /\ \A i \in 1..Len(thrown.nodes) :
                  ctl.error.headers[i] = HeaderOfNode(thrown.nodes[i])

\* 1+m(1){a*1}: the reducer of `*` threw under m and `+`, and the error
\* leaves the script reducer's ev with the headers of `+`, m and `*`.
C9_Witness ==
    /\ src = NestedSource
    /\ ThrowLeavesOutermostEv
    /\ ctl.error.msg = <<"host error">>
    /\ Len(ctl.error.headers) = 3
    /\ ctl.error.headers[1].column = 1
    /\ ctl.error.headers[2].column = 3
    /\ ctl.error.headers[3].column = 8
    /\ ctl.error.headers[3].excerpt = <<"a", "*", "1">>

(***************************************************************************)
(* C10: the tables compile starts from                                     *)
(***************************************************************************)

NotLegalHere(what, name) == <<"This use of " \o what \o " '", name, "' is not legal here.">>

\* The tables of a context are the default tables: an operator entry for
\* each declared operator and for no other name, a macro entry for each
\* declared macro, each a default reducer of its name.
HoldsDefaults(context) ==
    /\ DOMAIN context.operators = DOMAIN operators
    /\ \A op \in DOMAIN context.operators :
          context.operators[op] = [kind |-> "defaultOperator", tag |-> op]
    /\ DOMAIN context.macros = DOMAIN macros
    /\ \A macro \in DOMAIN context.macros :
          context.macros[macro] = [kind |-> "defaultMacro", tag |-> macro]
    /\ \A macro \in DOMAIN macros :
          macro \in DOMAIN context.operators => macro \in DOMAIN operators

\* The eval call at k, of a declared macro for which the scope has no
\* reducer of the host, is followed by the throw of the default reducer's
\* message.
RaisesNotLegalHere(k) ==
    (/\ trace[k].type = "eval"
     /\ trace[k].node.type = "macro"
     /\ trace[k].node.name \in DOMAIN macros
     /\ \/ trace[k].node.name \notin DOMAIN trace[k].macros
        \/ trace[k].macros[trace[k].node.name].kind # "host") =>
        \E t \in (k + 1)..Len(trace) :
           /\ t <= k + 2
           /\ trace[t].type = "throw"
           /\ trace[t].error.msg = NotLegalHere("macro", trace[k].node.name)

\* C10: the context passed to the script reducer holds a default reducer for
\* every declared operator in its operator map and for every declared macro
\* in its macro map; the operator map has no entry keyed by a macro name;
\* a declared macro evaluated without a reducer of the host raises the
\* "not legal here" error.
C10_DefaultTables ==
    \A k \in 1..Len(trace) :
       /\ trace[k].type = "script" => HoldsDefaults(trace[k].call.context)
       /\ RaisesNotLegalHere(k)

(***************************************************************************)
(* C11: the limbs of a macro node                                          *)
(***************************************************************************)

\* The macro nodes of ast and of the nodes below it.
RECURSIVE MacroNodes(_)
RECURSIVE MacroNodesIn(_)
MacroNodesIn(seq) ==
    IF seq = <<>> THEN {} ELSE MacroNodes(Head(seq)) \cup MacroNodesIn(Tail(seq))

MacroNodes(ast) ==
    IF ast.type = "literal" THEN {}
    ELSE IF ast.type = "operation" THEN MacroNodesIn(ast.operands)
    ELSE {ast} \cup MacroNodesIn(ast.body) \cup MacroNodesIn(ast.args)
         \cup UNION {MacroNodesIn(ast.limbs[l]) : l \in DOMAIN ast.limbs}

\* Every limb name declared for the macro is a key of the limbs mapping.
HasDeclaredLimbs(name, limbs) ==
    \A k \in 1..Len(macros[name].limbs) : macros[name].limbs[k] \in DOMAIN limbs

\* C11: every macro node the parser builds has every limb name declared for
\* its macro as a key of its limbs, a declared limb the source omits mapping
\* to the empty sequence: m, declared with the limb e and written m(1){}
\* without it, reaches its reducer with limbs["e"] = [].
C11_DeclaredLimbsPresent ==
    /\ \A node \in MacroNodesIn(asts) : HasDeclaredLimbs(node.name, node.limbs)
    /\ (src = MacroSource /\ pc # "start") =>
          /\ Len(asts) = 1
          /\ asts[1].type = "macro"
          /\ asts[1].limbs = [l \in {<<"e">>} |-> <<>>]
    /\ \A k \in 1..Len(trace) :
          trace[k].type = "macro" =>
             HasDeclaredLimbs(trace[k].node.name, trace[k].call.limbs)

(***************************************************************************)
(* C12: the limbs written after a macro's body                             *)
(***************************************************************************)

\* The first limb of names that the macro does not declare or that was
\* written before, 0 if there is none.
FirstBadLimb(macro, names) ==
    LET bad == {k \in 1..Len(names) :
                   \/ ~Includes(macros[macro].limbs, names[k])
                   \/ \E h \in 1..(k - 1) : names[h] = names[k]}
    IN  IF bad = {} THEN 0 ELSE CHOOSE k \in bad : \A h \in bad : k <= h

\* The statements of a block as the characters of their literals.
LeavesOf(statements) == [k \in 1..Len(statements) |-> statements[k].operands[1].value]

BlockLeaves(name) ==
    IF name = <<"c">> THEN << <<"a">> >> ELSE IF name = <<"f">> THEN << <<"1">> >> ELSE <<>>

\* C12: an identifier after the body that is not a declared limb of the macro
\* is a syntax error, a declared limb written a second time is a "Can't
\* declare twice" syntax error, and declared limbs written at most once each
\* are accepted in any order, each stored under its own name.
C12_LimbsChecked ==
    \A macro \in {<<"t">>, <<"v">>}, names \in Lists(WrittenLimbNames, MaxLimbs) :
       (src = LimbSource(macro, names) /\ macro \in DOMAIN macros /\ pc # "start") =>
          LET k == FirstBadLimb(macro, names)
          IN  IF k = 0
              THEN /\ result.status # "threw" \/ result.during # "parse"
                   /\ Len(asts) = 1
                   /\ asts[1].type = "macro"
                   /\ asts[1].name = macro
                   /\ \A h \in 1..Len(names) :
                         /\ names[h] \in DOMAIN asts[1].limbs
                         /\ LeavesOf(asts[1].limbs[names[h]]) = BlockLeaves(names[h])
              ELSE /\ result.status = "threw"
                   /\ result.during = "parse"
                   /\ asts = <<>>
                   /\ IF Includes(macros[macro].limbs, names[k])
                      THEN result.error.msg = <<"Can't declare twice the limb '", names[k], "'.">>
                      ELSE result.error.msg = <<"Macro '", macro, "' doesn't accept a limb called ",
                                                names[k], ".">>

(***************************************************************************)
(* C13: the silent macro                                                   *)
(***************************************************************************)

\* C13: whether or not the host declared a macro named "", a bare { body }
\* parses, without a syntax error, to the macro node of name "" with no
\* args, that body and no limbs.
C13_SilentMacroDeclared ==
    (src \in SilentSources /\ pc # "start") =>
        /\ result.status # "threw"
        /\ Len(asts) = 1
        /\ asts[1].type = "macro"
        /\ asts[1].name = <<>>
        /\ asts[1].args = <<>>
        /\ asts[1].limbs = EmptyMap
        /\ Len(asts[1].body) = Len(SelectSeq(src, LAMBDA c : c \in {"a", "1"}))
        /\ \A k \in 1..Len(asts[1].body) :
              asts[1].body[k].operands[1].value = <<SelectSeq(src, LAMBDA c : c \in {"a", "1"})[k]>>

\* C13, amended: the silent macro is declared by the host like any other
\* (README: its declaration must always read { name: "", arity: 0 }): on a
\* compiler whose declarations have it, a bare { body } parses to the macro
\* node of name "" with no args, that body and no limbs; on a compiler
\* whose declarations lack it, a bare { body } is the syntax error
\* "Unknown macro." and nothing is evaluated.
C13_SilentMacroWhenDeclared ==
    (src \in SilentSources /\ pc # "start") =>
        IF <<>> \in DOMAIN macros
        THEN C13_SilentMacroDeclared
        ELSE /\ result.status = "threw"
             /\ result.during = "parse"
             /\ result.error.msg = <<"Unknown macro.">>
             /\ asts = <<>>
             /\ trace = <<>>

\* { a ; 1 } was parsed by a compiler with the silent macro declared, and
\* its two statements are the body of the node.
C13_Witness ==
    /\ src = <<"{", "a", ";", "1", "}">>
    /\ <<>> \in DOMAIN macros
    /\ pc = "parsed"
    /\ asts[1].name = <<>>
    /\ Len(asts[1].body) = 2

(***************************************************************************)
(* C14: hash operators                                                     *)
(***************************************************************************)

\* The operation the statement is, without metadata and operand detail: its
\* operator and the number of its operands.
Outline(ast) ==
    IF ast.type = "operation" THEN [operator |-> ast.operator, count |-> Len(ast.operands)]
    ELSE [operator |-> UNDEF, count |-> 0]

\* The outline of the only statement of a source using #p.
HashOutline(s) ==
    [operator |-> hashOp,
     count |-> IF s = HashUnary THEN 1 ELSE IF s = HashNullaryPack THEN 0 ELSE 2]

\* C14: the declared hash operator #p is read with its letters and used as a
\* symbolic operator is: #p 1, a #p a, [#p] and [#p 1;a] each parse, without
\* a syntax error, to one statement, the operation of #p with one, two, no and
\* two operands.
C14_HashOperators ==
    (src \in HashSources /\ hashOp \in DOMAIN operators /\ pc # "start") =>
        /\ ~(result.status = "threw" /\ result.during = "parse")
        /\ Len(asts) = 1
        /\ Outline(asts[1]) = HashOutline(src)

(***************************************************************************)
(* C15: infix packs                                                        *)
(***************************************************************************)

PackOperandChars == {"0", "1", "2", "3", "4", "a"}

PackOperatorChars == {"+", "*"}

\* The source is one pack, alone or followed by `;`.
IsOnePack(s) ==
    /\ Len(s) >= 2
    /\ s[1] = "["
    /\ Cardinality({k \in 1..Len(s) : s[k] = "]"}) = 1
    /\ \A k \in 2..Len(s) : s[k] # "["
    /\ \/ s[Len(s)] = "]"
       \/ Len(s) >= 3 /\ s[Len(s)] = ";" /\ s[Len(s) - 1] = "]"

\* The text between the brackets of the pack, without its blanks.
PackInk(s) == Ink(SubSeq(s, 2, (CHOOSE k \in 1..Len(s) : s[k] = "]") - 1))

\* The pack is infix: one-character operands joined by operators (a last,
\* dangling one allowed), one operator at least.
IsInfixPack(s) ==
    /\ IsOnePack(s)
    /\ LET t == PackInk(s)
       IN  /\ Len(t) >= 2
           /\ \A k \in 1..Len(t) :
                  IF k % 2 = 1 THEN t[k] \in PackOperandChars ELSE t[k] \in PackOperatorChars

\* Every operator of the infix pack is the same one.
OneOperator(s) == LET t == PackInk(s) IN \A k \in 1..Len(t) : k % 2 = 0 => t[k] = t[2]

\* The operands of the node are the one-character operands of the pack, in
\* the order of the source.
HasOperandsOf(node, t) ==
    /\ Len(node.operands) = (Len(t) + 1) \div 2
    /\ \A k \in 1..Len(node.operands) : node.operands[k].metadata.excerpt = <<t[2 * k - 1]>>

\* C15: an infix pack whose operators are all the same declared operator OP,
\* with or without a dangling last OP, alone or followed by `;`, parses
\* without a syntax error to the single statement Operation(OP, [o1, ..., on])
\* whose excerpt runs through the closing bracket; +1 is the operation of +
\* on 1, as [1+] is.
C15_InfixPack ==
    /\ (IsInfixPack(src) /\ OneOperator(src) /\ operators = WideRegistry.operators /\ pc # "start") =>
           /\ ~(result.status = "threw" /\ result.during = "parse")
           /\ Len(asts) = 1
           /\ asts[1].type = "operation"
           /\ asts[1].operator = <<PackInk(src)[2]>>
           /\ HasOperandsOf(asts[1], PackInk(src))
           /\ asts[1].metadata.excerpt = SubSeq(src, 1, CHOOSE k \in 1..Len(src) : src[k] = "]")
    /\ (src = <<"+", "1">> /\ pc # "start") =>
           /\ Len(asts) = 1
           /\ asts[1].type = "operation"
           /\ asts[1].operator = <<"+">>
           /\ HasOperandsOf(asts[1], <<"1">>)

(***************************************************************************)
(* C16: the packs that are rejected                                        *)
(***************************************************************************)

SingleTypeMessage ==
    <<"Syntax error : Only a single type of operator is allowed inside a bracket expression.",
      "Enclose subexpressions in parentheses if needed.">>

TooShortMessage == <<"Infix bracket expressions expect at least an operand and an operator.">>

\* parseScript threw the message, and there is nothing to evaluate.
RejectedWith(msg) ==
    /\ result.status = "threw"
    /\ result.during = "parse"
    /\ result.error.msg = msg
    /\ asts = <<>>
    /\ trace = <<>>

\* C16: an infix pack whose operators are declared but not all the same is
\* rejected with the single-type-of-operator syntax error; a pack of one
\* operand and no operator, and an empty pack, are rejected with a syntax
\* error too; no statement is returned and nothing is evaluated.
C16_PackRejections ==
    (IsOnePack(src) /\ operators = WideRegistry.operators /\ pc # "start") =>
        /\ (IsInfixPack(src) /\ ~OneOperator(src)) => RejectedWith(SingleTypeMessage)
        /\ (Len(PackInk(src)) = 1 /\ PackInk(src)[1] \in PackOperandChars) => RejectedWith(TooShortMessage)
        /\ PackInk(src) = <<>> => RejectedWith(TooShortMessage)

\* [1 + 2*3 + 4] was rejected for its two operators.
C16_Witness ==
    /\ src = InfixMixed
    /\ pc # "start"
    /\ RejectedWith(SingleTypeMessage)

(***************************************************************************)
(* C17: prefix packs                                                       *)
(***************************************************************************)

Blank(s) == \A k \in 1..Len(s) : s[k] \in WHITESPACE_CHARS

\* The text without the blanks it begins with.
Trimmed(s) ==
    IF Blank(s) THEN <<>>
    ELSE SubSeq(s, CHOOSE k \in 1..Len(s) : s[k] \notin WHITESPACE_CHARS /\ Blank(SubSeq(s, 1, k - 1)), Len(s))

\* The number of operator characters the text begins with.
OperatorRun(s) ==
    IF \A k \in 1..Len(s) : s[k] \in OPERATOR_CHARS THEN Len(s)
    ELSE (CHOOSE k \in 1..Len(s) : s[k] \notin OPERATOR_CHARS /\ \A n \in 1..(k - 1) : s[n] \in OPERATOR_CHARS) - 1

\* The pieces of the text between the occurrences of the character.
RECURSIVE SplitAt(_, _)
SplitAt(s, c) ==
    IF \A k \in 1..Len(s) : s[k] # c THEN <<s>>
    ELSE LET k == CHOOSE n \in 1..Len(s) : s[n] = c /\ \A m \in 1..(n - 1) : s[m] # c
         IN  <<SubSeq(s, 1, k - 1)>> \o SplitAt(SubSeq(s, k + 1, Len(s)), c)

\* The text between the brackets of the pack, from its first ink on.
PackText(s) == Trimmed(SubSeq(s, 2, (CHOOSE k \in 1..Len(s) : s[k] = "]") - 1))

\* The operator token the pack begins with.
PackOperator(s) == SubSeq(PackText(s), 1, OperatorRun(PackText(s)))

\* The source is one pack whose first token is a declared symbolic operator.
IsPrefixPack(s) ==
    /\ IsOnePack(s)
    /\ PackOperator(s) # <<>>
    /\ PackOperator(s) \in DOMAIN operators

\* The texts of e1, ..., en: what is written after the operator, cut at
\* every `;`, a blank last piece left out.
PackOperands(s) ==
    LET t == PackText(s)
        pieces == SplitAt(SubSeq(t, OperatorRun(t) + 1, Len(t)), ";")
    IN  IF Blank(pieces[Len(pieces)]) THEN SubSeq(pieces, 1, Len(pieces) - 1) ELSE pieces

\* Each text is one full expression: a script of one statement.
FullExpressions(texts) ==
    \A k \in 1..Len(texts) :
        LET parsed == parseScript(texts[k]) IN ~parsed.err /\ Len(parsed.val) = 1

\* An AST without the metadata of its nodes.
RECURSIVE Bare(_)
Bare(ast) ==
    IF ast.type = "literal" THEN [type |-> "literal", value |-> ast.value]
    ELSE IF ast.type = "operation"
    THEN [type |-> "operation", operator |-> ast.operator,
          operands |-> [k \in 1..Len(ast.operands) |-> Bare(ast.operands[k])]]
    ELSE [type |-> "macro", name |-> ast.name,
          args |-> [k \in 1..Len(ast.args) |-> Bare(ast.args[k])],
          body |-> [k \in 1..Len(ast.body) |-> Bare(ast.body[k])],
          limbs |-> [l \in DOMAIN ast.limbs |-> [k \in 1..Len(ast.limbs[l]) |-> Bare(ast.limbs[l][k])]]]

\* C17: a pack that begins with the declared symbolic operator OP, followed
\* by the full expressions e1; ...; en (n = 0 included, a last `;` allowed),
\* parses to the single statement Operation(OP, [e1, ..., en]), each operand
\* the tree its expression has as a statement of its own, when n is within
\* the arity declared for OP, and is a syntax error when it is not.  The
\* expressions checked are written with numbers, names and operators; the
\* call and index groups after an operand are read by parseOperand's own
\* loop, not by the pack.
C17_PrefixPack ==
    (IsPrefixPack(src) /\ FullExpressions(PackOperands(src)) /\ pc # "start") =>
        LET texts == PackOperands(src)
            arity == operators[PackOperator(src)].arity
        IN  IF Len(texts) \in arity[1]..arity[2]
            THEN /\ ~(result.status = "threw" /\ result.during = "parse")
                 /\ Len(asts) = 1
                 /\ asts[1].type = "operation"
                 /\ asts[1].operator = PackOperator(src)
                 /\ Len(asts[1].operands) = Len(texts)
                 /\ \A k \in 1..Len(texts) :
                        Bare(asts[1].operands[k]) = Bare(parseScript(texts[k]).val[1])
            ELSE /\ result.status = "threw"
                 /\ result.during = "parse"
                 /\ asts = <<>>

\* [+ 1; 2; 3] was parsed to the operation of + on three operands.
C17_Witness ==
    /\ src = PrefixOfThree
    /\ pc = "parsed"
    /\ asts[1].operator = <<"+">>
    /\ Len(asts[1].operands) = 3
    /\ Shape(asts[1].operands[3]) = [leaf |-> "3"]

(***************************************************************************)
(* C18: the operands of a string                                           *)
(***************************************************************************)

\* The source is one string literal, parsed to the #string operation.
IsParsedString ==
    /\ pc # "start"
    /\ Len(src) >= 2
    /\ src[1] = "\""
    /\ src[Len(src)] = "\""
    /\ \A k \in 2..(Len(src) - 1) : src[k] # "\""
    /\ Len(asts) = 1
    /\ asts[1].type = "operation"
    /\ asts[1].operator = stringOp

\* Chunk, expression, chunk, ..., chunk.
Alternates(operands) ==
    /\ Len(operands) % 2 = 1
    /\ \A k \in 1..Len(operands) : (operands[k].type = "literal") <=> (k % 2 = 1)

\* C18: the operands of the #string operation of every string literal are
\* a Literal chunk, an embedded expression, a Literal chunk, and so on, the
\* first and the last a chunk: one operand when the string has no
\* interpolation, an odd number of three or more when it has; "a{1}b" gives
\* the chunk a, the expression 1, the chunk b, and "{x}" the empty chunk, the
\* expression x, the empty chunk.
C18_StringAlternates ==
    IsParsedString =>
        /\ Alternates(asts[1].operands)
        /\ IF \E k \in 1..Len(src) : src[k] = "{"
           THEN Len(asts[1].operands) >= 3
           ELSE Len(asts[1].operands) = 1
        /\ src = <<"\"", "a", "{", "1", "}", "b", "\"">> =>
               /\ Len(asts[1].operands) = 3
               /\ asts[1].operands[1].value = <<"a">>
               /\ Shape(asts[1].operands[2]) = [leaf |-> "1"]
               /\ asts[1].operands[3].value = <<"b">>
        /\ src = <<"\"", "{", "x", "}", "\"">> =>
               /\ Len(asts[1].operands) = 3
               /\ asts[1].operands[1].value = <<>>
               /\ Shape(asts[1].operands[2]) = [leaf |-> "x"]
               /\ asts[1].operands[3].value = <<>>

(***************************************************************************)
(* C19: what flushed skips                                                 *)
(***************************************************************************)

\* The index a comment cannot end at: it is not closed.
Unclosed == -1

\* The index one past the `]]` that matches the `[[` of a comment, nesting
\* counted; j is in the comment, depth counts the `[[` not yet matched.
RECURSIVE CommentEnd(_, _, _)
CommentEnd(s, j, depth) ==
    IF j >= Len(s) THEN Unclosed
    ELSE IF Substring(s, j, j + 2) = <<"[", "[">> THEN CommentEnd(s, j + 2, depth + 1)
    ELSE IF Substring(s, j, j + 2) = <<"]", "]">>
    THEN IF depth = 1 THEN j + 2 ELSE CommentEnd(s, j + 2, depth - 1)
    ELSE CommentEnd(s, j + 1, depth)

\* The index of the first character at or after i that is neither
\* whitespace nor in a comment.
RECURSIVE FirstInk(_, _)
FirstInk(s, i) ==
    IF isWhitespace(s, i) THEN FirstInk(s, i + 1)
    ELSE IF Substring(s, i, i + 2) = <<"[", "[">>
    THEN LET e == CommentEnd(s, i, 0) IN IF e = Unclosed THEN Unclosed ELSE FirstInk(s, e)
    ELSE i

\* The text parseScript scans.
Scanned == Append(src, NUL)

\* C19: from every index of the scanned text from which the comments are
\* all closed, flushed returns the index of the first character that is
\* neither whitespace nor in a comment (nesting counted): one past the last
\* whitespace or closing `]]` skipped, no other character skipped; and
\* [[c]]1+1 parses as 1+1.
C19_FlushedSkips ==
    /\ pc # "start" =>
           \A i \in 0..Len(src) :
               FirstInk(Scanned, i) # Unclosed => flushed(Scanned, i) = Ret(FirstInk(Scanned, i))
    /\ (src = CommentThenSum /\ pc # "start") =>
           /\ Len(asts) = 1
           /\ Shape(asts[1]) = [op |-> "+", left |-> [leaf |-> "1"], right |-> [leaf |-> "1"]]

(***************************************************************************)
(* C20: the unclosed comment                                               *)
(***************************************************************************)

UnclosedComment == <<"Unclosed comment.">>

\* C20: flushed raises "Unclosed comment." from an index exactly when a
\* comment it meets from there has no matching `]]` before the end of the
\* text; compile raises it only for a source with such a comment; and
\* 1+1; [[ note ]] compiles to the single statement 1+1.
C20_UnclosedComment ==
    /\ pc # "start" =>
           \A i \in 0..Len(src) :
               LET f == flushed(Scanned, i)
               IN  (f.err /\ f.error.msg = UnclosedComment) <=> (FirstInk(Scanned, i) = Unclosed)
    /\ (result.status = "threw" /\ result.error.msg = UnclosedComment) =>
           \E i \in 0..Len(src) : FirstInk(Scanned, i) = Unclosed
    /\ (src = SumThenComment /\ pc # "start") =>
           /\ Len(asts) = 1
           /\ Shape(asts[1]) = [op |-> "+", left |-> [leaf |-> "1"], right |-> [leaf |-> "1"]]

(***************************************************************************)
(* C21: expression sequences                                               *)
(***************************************************************************)

SeqChars == {"a", "1", ";", " "}

\* The source is a sequence of a, 1, `;` and blanks written in the place.
Fits(context, s) ==
    LET n == Len(context.before)
        m == Len(context.after)
    IN  /\ Len(s) >= n + m
        /\ SubSeq(s, 1, n) = context.before
        /\ SubSeq(s, Len(s) - m + 1, Len(s)) = context.after
        /\ \A k \in (n + 1)..(Len(s) - m) : s[k] \in SeqChars

IsSeqSource(s) == \E context \in SeqContexts : Fits(context, s)

ContextOf(s) == CHOOSE context \in SeqContexts : Fits(context, s)

\* The expressions and semicolons written in the sequence.
BodyOf(s) ==
    Ink(SubSeq(s, Len(ContextOf(s).before) + 1, Len(s) - Len(ContextOf(s).after)))

\* Expressions separated by one `;` each, a last `;` allowed; or nothing.
WellSeparated(body) ==
    \A k \in 1..Len(body) : (body[k] = ";") <=> (k % 2 = 0)

\* The first thing wrong in the sequence is an expression that follows
\* another without a `;` (two names apart: the second name of `a a` is read
\* as the name a macro is bound to).
MissingSemicolon(body) ==
    \E k \in 1..(Len(body) - 1) :
        /\ WellSeparated(SubSeq(body, 1, k))
        /\ body[k] # ";"
        /\ body[k + 1] # ";"
        /\ ~(body[k] = "a" /\ body[k + 1] = "a")

\* The list the parser made of the sequence written in the place.
ParsedSequence(kind) ==
    IF kind = "script" THEN asts
    ELSE IF kind = "args" THEN asts[1].args
    ELSE IF kind \in {"body", "silent"} THEN asts[1].body
    ELSE IF kind = "limb" THEN asts[1].limbs[<<"e">>]
    ELSE IF kind = "pack" THEN asts[1].operands
    ELSE Tail(asts[1].operands)

\* The node of the expression a, or 1, without metadata.
BareItem(c) ==
    [type |-> "operation", operator |-> IF c = "a" THEN nameOp ELSE numberOp,
     operands |-> << [type |-> "literal", value |-> <<c>>] >>]

RECURSIVE LeftFold(_, _)
LeftFold(groups, n) ==
    IF n = 0 THEN BareItem("a")
    ELSE [type |-> "operation",
          operator |-> IF groups[n].open = "(" THEN callOp ELSE indexOp,
          operands |-> <<LeftFold(groups, n - 1)>>
                       \o [k \in 1..Len(groups[n].items) |-> BareItem(groups[n].items[k])]]

\* The text of every written chain, with the tree it stands for.
PostfixTable ==
    { [text |-> PostfixText(chain), tree |-> LeftFold(chain.groups, Len(chain.groups))] :
        chain \in PostfixChains }

\* C22: with #call and #index declared in the tightest group for any number
\* of operands, an operand followed by call and index groups parses to one
\* statement in which the groups are folded from the left, each group making
\* Operation(#call or #index, [what precedes it, a1, ..., an]): a[1][1] is
\* #index(#index(a, 1), 1), a()() is #call(#call(a)), a[1]() is
\* #call(#index(a, 1)), (a)[1] is #index(a, 1).
C22_GroupsFoldLeft ==
    pc # "start" =>
        \A entry \in PostfixTable :
            src = entry.text =>
                /\ ~(result.status = "threw" /\ result.during = "parse")
                /\ Len(asts) = 1
                /\ Bare(asts[1]) = entry.tree

(***************************************************************************)
(* C23: replace                                                            *)
(***************************************************************************)

\* The callbacks handed to replace: "wrap" answers a node that records the
\* node it was handed, "same" answers the node it was handed.
Replacers == {"wrap", "same"}

\* f(ast), for the callback f.
ApplyReplacer(f, ast) ==
    IF f = "wrap" THEN [type |-> "replaced", handed |-> ast] ELSE ast

\* mapValues(obj, f), f given as the mapping of every value.
mapValues(obj, image) == [k \in DOMAIN obj |-> image[k]]

\* replace: newAst is built from the replaced members and is not what the
\* function returns; its last line tests and hands over ast.
RECURSIVE replace(_, _, _, _)
replace(type, f, ast, depth) ==
    LET newAst ==
            IF ast.type = "literal" THEN ast
            ELSE IF ast.type = "macro"
            THEN IF depth = 0 THEN ast
                 ELSE [ast EXCEPT
                         !.body = [k \in 1..Len(ast.body) |-> replace(type, f, ast.body[k], depth - 1)],
                         !.args = [k \in 1..Len(ast.args) |-> replace(type, f, ast.args[k], depth)],
                         !.limbs = mapValues(ast.limbs,
                                     [l \in DOMAIN ast.limbs |->
                                        [k \in 1..Len(ast.limbs[l]) |->
                                           replace(type, f, ast.limbs[l][k], depth - 1)]])]
            ELSE IF depth = 0 THEN ast
                 ELSE [ast EXCEPT
                         !.operands = [k \in 1..Len(ast.operands) |->
                                         replace(type, f, ast.operands[k], depth)]]
    IN  IF ast.type = type THEN ApplyReplacer(f, ast) ELSE ast

\* The tree the documentation of replace describes: the members replaced
\* first, down to depth nested macros, then the node itself when it matches.
RECURSIVE ReplacedBottomUp(_, _, _, _)
ReplacedBottomUp(type, f, ast, depth) ==
    LET members ==
            IF ast.type = "literal" \/ depth = 0 THEN ast
            ELSE IF ast.type = "macro"
            THEN [ast EXCEPT
                    !.body = [k \in 1..Len(ast.body) |-> ReplacedBottomUp(type, f, ast.body[k], depth - 1)],
                    !.args = [k \in 1..Len(ast.args) |-> ReplacedBottomUp(type, f, ast.args[k], depth)],
                    !.limbs = [l \in DOMAIN ast.limbs |->
                                 [k \in 1..Len(ast.limbs[l]) |->
                                    ReplacedBottomUp(type, f, ast.limbs[l][k], depth - 1)]]]
            ELSE [ast EXCEPT
                    !.operands = [k \in 1..Len(ast.operands) |->
                                    ReplacedBottomUp(type, f, ast.operands[k], depth)]]
    IN  IF ast.type = type THEN ApplyReplacer(f, members) ELSE members

ReplaceDepths == {0, 1, Infinity}

\* C23: for every parsed statement, every node type, every callback f and
\* every depth, replace(type, f, ast, depth) is the tree in which each node
\* of that type down to depth nested macros is replaced by what f answers
\* for it, the members of a node being replaced before the node is handed
\* to f, also when the matching nodes lie below a root of another type:
\* replacing the literals of the statement a*1 gives an operation whose two
\* operands are what f answered.
C23_ReplaceBottomUp ==
    pc = "parsed" =>
        \A k \in 1..Len(asts), type \in {"literal", "operation", "macro"},
           f \in Replacers, depth \in ReplaceDepths :
            replace(type, f, asts[k], depth) = ReplacedBottomUp(type, f, asts[k], depth)

(***************************************************************************)
(* C24: the calculator of examples/calc.ts                                 *)
(***************************************************************************)

\* examples/calc.ts, opDeclarations and macroDeclarations.
CalcOpDeclarations ==
    <<
      << [name |-> numberOp, arity |-> <<1>>], [name |-> nameOp, arity |-> <<1>>] >>,
      << [name |-> <<"*", "*">>, arity |-> <<2>>] >>,
      << [name |-> <<"*">>, arity |-> <<2>>], [name |-> <<"/">>, arity |-> <<2>>] >>,
      << [name |-> <<"+">>, arity |-> <<2>>], [name |-> <<"-">>, arity |-> <<2>>] >>
    >>

withMacro == <<"w", "i", "t", "h">>

CalcMacroDeclarations == << [name |-> withMacro, arity |-> <<1>>, limbs |-> <<>>] >>

CalcRegistry == constructor(CalcOpDeclarations, CalcMacroDeclarations)

\* The source calcTest compiles, as written in examples/calc.ts.
CalcSource ==
    << "\n", " ", " ", " ", " ", "1", "+", "2", ";", "\n", "\n", " ", " ", " ", " ", 
       "3", "*", "4", "+", "8", ".", "5", ";", "\n", "\n", " ", " ", " ", " ", "w", 
       "i", "t", "h", " ", "(", "4", ")", " ", "{", "\n", " ", " ", " ", " ", " ", 
       " ", " ", " ", "v", "a", "l", "u", "e", "+", "8", ";", "\n", " ", " ", " ", 
       " ", " ", " ", " ", " ", "v", "a", "l", "u", "e", "*", "v", "a", "l", "u", "e", 
       ";", "\n", " ", " ", " ", " ", " ", " ", " ", " ", "(", "v", "a", "l", "u", 
       "e", "-", "1", "2", "0", ")", "/", "2", ";", "\n", " ", " ", " ", " ", "}", 
       ";", "\n" >>

\* The same statements on one line.
CalcSourceOnOneLine ==
    << "1", "+", "2", ";", " ", "3", "*", "4", "+", "8", ".", "5", ";", " ", "w", "i", 
       "t", "h", " ", "(", "4", ")", " ", "{", " ", "v", "a", "l", "u", "e", "+", "8", 
       ";", " ", "v", "a", "l", "u", "e", "*", "v", "a", "l", "u", "e", ";", " ", "(", 
       "v", "a", "l", "u", "e", "-", "1", "2", "0", ")", "/", "2", ";", " ", "}", ";" >>

\* The values of the calculator: a number n/d in lowest terms with d > 0 (the
\* doubles the sources checked compute are such numbers, exactly), the string
\* lift returns for a literal, undefined, and NaN.
RECURSIVE GCD(_, _)
GCD(a, b) == IF b = 0 THEN a ELSE GCD(b, a % b)

Abs(n) == IF n < 0 THEN -n ELSE n

Number(n, d) ==
    LET g == GCD(Abs(n), Abs(d))
        sign == IF d < 0 THEN -1 ELSE 1
    IN  [kind |-> "number", n |-> sign * (n \div g), d |-> sign * (d \div g)]

Integer(n) == Number(n, 1)

JSString(chars) == [kind |-> "string", chars |-> chars]

JSUndefined == [kind |-> "undefined"]

NaN == [kind |-> "NaN"]

\* A quotient by zero, and a power that is not a ratio of integers: values
\* no source checked computes with.
NotRational == [kind |-> "notRational"]

IsNumber(v) == v.kind = "number"

DigitValue(c) == CHOOSE n \in 0..9 : DecimalChars(n) = <<c>>

RECURSIVE DigitsValue(_)
DigitsValue(chars) ==
    IF chars = <<>> THEN 0
    ELSE 10 * DigitsValue(SubSeq(chars, 1, Len(chars) - 1)) + DigitValue(chars[Len(chars)])

RECURSIVE TenTo(_)
TenTo(n) == IF n = 0 THEN 1 ELSE 10 * TenTo(n - 1)

\* parseFloat(s) for the texts parseNumber cuts: digits, then maybe a point
\* and digits.
parseFloat(v) ==
    IF v.kind # "string" \/ v.chars = <<>> \/ v.chars[1] \notin DigitChars THEN NaN
    ELSE LET chars == v.chars
             point == IF \E k \in 1..Len(chars) : chars[k] = "."
                      THEN CHOOSE k \in 1..Len(chars) : chars[k] = "." /\ \A n \in 1..(k - 1) : chars[n] # "."
                      ELSE Len(chars) + 1
             whole == SubSeq(chars, 1, point - 1)
             fraction == SubSeq(chars, point + 1, Len(chars))
         IN  Number(DigitsValue(whole \o fraction), TenTo(Len(fraction)))

RECURSIVE IntegerPower(_, _)
IntegerPower(x, k) ==
    IF k = 0 THEN Integer(1)
    ELSE LET rest == IntegerPower(x, k - 1) IN Number(rest.n * x.n, rest.d * x.d)

\* The arithmetic of the reducers of scriptMacro (calc.ts lines 46-53).
Arithmetic(op, x, y) ==
    IF op = <<"*", "*">> /\ y = Integer(0) THEN Integer(1)
    ELSE IF ~IsNumber(x) \/ ~IsNumber(y)
    THEN IF NotRational \in {x, y} THEN NotRational ELSE NaN
    ELSE IF op = <<"+">> THEN Number(x.n * y.d + y.n * x.d, x.d * y.d)
    ELSE IF op = <<"-">> THEN Number(x.n * y.d - y.n * x.d, x.d * y.d)
    ELSE IF op = <<"*">> THEN Number(x.n * y.n, x.d * y.d)
    ELSE IF op = <<"/">> THEN IF y.n = 0 THEN NotRational ELSE Number(x.n * y.d, x.d * y.n)
    ELSE IF y.d # 1 THEN NotRational
    ELSE IF y.n > 0 THEN IntegerPower(x, y.n)
    ELSE IF x.n = 0 THEN NotRational
    ELSE IntegerPower(Number(x.d, x.n), -y.n)

\* What a call made during the evaluation does: it returns a value or throws.
Returned(value) == [threw |-> FALSE, value |-> value]

Threw(e) == [threw |-> TRUE, error |-> e]

\* The reducers of calc.ts: those of the tables ops and macros of scriptMacro,
\* and the nameOp a run of the with macro makes, which reads the variable
\* `value` of that run.
CalcReducer(name) == [kind |-> "calc", tag |-> name]

CalcNameOp(value) == [kind |-> "calcName", value |-> value]

CalcOps == [op \in {numberOp, <<"*", "*">>, <<"*">>, <<"/">>, <<"+">>, <<"-">>} |-> CalcReducer(op)]

CalcMacros == [macro \in {withMacro} |-> CalcReducer(macro)]

valueName == <<"v", "a", "l", "u", "e">>

\* operator(evaluatedOperands) for a reducer of an operator table.  A missing
\* operand is undefined.
Operand(args, k) == IF k <= Len(args) THEN args[k] ELSE JSUndefined

CallOperator(reducer, args) ==
    IF reducer.kind \in {"defaultOperator", "defaultMacro"} THEN Threw(NotLegal(reducer))
    ELSE IF reducer.kind = "calcName"
    THEN Returned(IF Operand(args, 1) = JSString(valueName) THEN reducer.value ELSE JSUndefined)
    ELSE IF reducer.tag = numberOp THEN Returned(parseFloat(Operand(args, 1)))
    ELSE Returned(Arithmetic(reducer.tag, Operand(args, 1), Operand(args, 2)))

RECURSIVE eval(_, _, _)
RECURSIVE MapEval(_, _, _, _)
RECURSIVE WithLoop(_, _, _, _)

\* operands.map(x => this.eval(x, operators, macros)): the values, or what
\* the first operand that throws threw.
MapEval(operands, operators_, macros_, done) ==
    IF Len(done) = Len(operands) THEN Returned(done)
    ELSE LET r == eval(operands[Len(done) + 1], operators_, macros_)
         IN  IF r.threw THEN r ELSE MapEval(operands, operators_, macros_, Append(done, r.value))

\* The loop of the with macro (calc.ts lines 77-79) from the k-th statement on.
WithLoop(context, body, k, value) ==
    IF k > Len(body) THEN Returned(value)
    ELSE LET c == ev(context, body[k], [n \in {nameOp} |-> CalcNameOp(value)], EmptyMap)
             r == eval(c.node, c.operators, c.macros)
         IN  IF r.threw THEN r ELSE WithLoop(context, body, k + 1, r.value)

\* The with macro (calc.ts lines 61-83).
CallWith(context, body, args) ==
    IF args = <<>> THEN Threw(Thrown(<<"TypeError: Cannot read properties of undefined (reading 'type')">>))
    ELSE LET c == ev(context, args[1], EmptyMap, EmptyMap)
             r == eval(c.node, c.operators, c.macros)
         IN  IF r.threw THEN r ELSE WithLoop(context, body, 1, r.value)

\* MicroCompiler.eval (compiler.ts lines 550-579) with lift the identity.
eval(ast, operators_, macros_) ==
    IF ast.type = "literal" THEN Returned(JSString(ast.value))
    ELSE IF ast.type = "macro"
    THEN IF ast.name \notin DOMAIN macros_
         THEN Threw(throwWith(ast.metadata, Thrown(<<"TypeError: macro is not a function">>)))
         ELSE LET r == IF macros_[ast.name].kind = "calc"
                       THEN CallWith(makeContext(operators_, macros_), ast.body, ast.args)
                       ELSE Threw(NotLegal(macros_[ast.name]))
              IN  IF r.threw THEN Threw(throwWith(ast.metadata, r.error)) ELSE r
    ELSE LET evaluatedOperands == MapEval(ast.operands, operators_, macros_, <<>>)
         IN  IF evaluatedOperands.threw
             THEN Threw(throwWith(ast.metadata, evaluatedOperands.error))
             ELSE IF ast.operator \notin DOMAIN operators_
             THEN Threw(throwWith(ast.metadata, Thrown(<<"TypeError: operator is not a function">>)))
             ELSE LET r == CallOperator(operators_[ast.operator], evaluatedOperands.value)
                  IN  IF r.threw THEN Threw(throwWith(ast.metadata, r.error)) ELSE r

\* The loop of scriptMacro (calc.ts lines 87-91) from the k-th statement on.
RECURSIVE ScriptLoop(_, _, _, _)
ScriptLoop(context, body, k, results) ==
    IF k > Len(body) THEN Returned(results)
    ELSE LET c == ev(context, body[k], CalcOps, CalcMacros)
             r == eval(c.node, c.operators, c.macros)
         IN  IF r.threw THEN r ELSE ScriptLoop(context, body, k + 1, Append(results, r.value))

\* calcCompiler.compile(src) once src is parsed to the statements: line 611.
calcCompile(statements) ==
    ScriptLoop(makeContext(DefaultScopes.operators, DefaultScopes.macros), statements, 1, <<>>)

\* calcTest (calc.ts lines 116-121), given what compile did.
calcTest(compiled) ==
    IF compiled.threw THEN compiled
    ELSE LET result_ == compiled.value
         IN  IF Len(result_) # 3 THEN Threw(Thrown(<<"Test failed.">>))
             ELSE IF result_[1] # Integer(3) \/ result_[2] # Integer(20) \/ result_[3] # Integer(12)
                  THEN Threw(Thrown(<<"Test failed.">>))
                  ELSE Returned(JSUndefined)

\* The longest generated calculator source.
MaxCalcLen == 3

CalcAlphabet == {"1", "2", "+", "*", "-", ";"}

CalcSources == Strings(CalcAlphabet, MaxCalcLen)

InitCalc ==
    \/ InitOf(CalcRegistry, CalcSources \cup {CalcSource, CalcSourceOnOneLine},
              {QuietHostOf(CalcRegistry)})
    \/ InitWith({MacroSource}, {ThrowingHost})

SpecCalc == InitCalc /\ [][Next]_vars

\* What the example is documented to compile to.
ThreeResults == <<Integer(3), Number(41, 2), Integer(12)>>

CalcCompilesToThree ==
    (pc # "start" /\ src \in {CalcSource, CalcSourceOnOneLine}) =>
        /\ ~(result.status = "threw" /\ result.during = "parse")
        /\ calcCompile(asts) = Returned(ThreeResults)

\* C24: with the declarations and the reducers of the calculator, the
\* source `1+2; 3*4+8.5; with (4) { value+8; value*value; (value-120)/2; };`
\* (on one line, or laid out as in calc.ts) compiles to the three results
\* 3, 20.5 and 12, and calcTest, given that result, returns without
\* throwing.
C24_CalculatorExample ==
    (pc # "start" /\ src \in {CalcSource, CalcSourceOnOneLine}) =>
        /\ CalcCompilesToThree
        /\ ~calcTest(calcCompile(asts)).threw

(***************************************************************************)
(* C25: the text of a string                                               *)
(***************************************************************************)

\* C25: a string literal without interpolation parses to the #string
\* operation of one Literal chunk whose value is the text between the
\* quotes, character for character: blanks at its start and `[[` included,
\* nothing of it skipped as whitespace or as a comment.
C25_RawChunks ==
    (pc # "start" /\ src \in RawStringSources) =>
        /\ Len(asts) = 1
        /\ asts[1].type = "operation"
        /\ asts[1].operator = stringOp
        /\ Len(asts[1].operands) = 1
        /\ asts[1].operands[1].type = "literal"
        /\ asts[1].operands[1].value = SubSeq(src, 2, Len(src) - 1)

(***************************************************************************)
(* C26: what follows an operand                                            *)
(***************************************************************************)

\* C26: whether a call or index group follows an operand is decided by the
\* first character after the operand, blanks and comments skipped, so the
\* parse of a statement does not depend on the statements after it: a
\* statement a or 1 followed by `;` and a second statement parses to two
\* statements, the first the tree of a or 1 alone and the second the tree
\* the second statement has alone; `a;(b)` is the two statements a and (b).
C26_Lookahead ==
    pc # "start" =>
        \A head \in LookaheadHeads, tail \in LookaheadTails :
            src = <<head, ";">> \o tail =>
                /\ ~(result.status = "threw" /\ result.during = "parse")
                /\ Len(asts) = 2
                /\ Bare(asts[1]) = BareItem(head)
                /\ LET alone == parseScript(tail)
                   IN  ~alone.err /\ Len(alone.val) = 1 /\ Bare(asts[2]) = Bare(alone.val[1])

(***************************************************************************)
(* C27: the threshold and the call and index groups                        *)
(***************************************************************************)

\* A compiler whose unary `!` is declared in the group of #call and #index
\* and whose `-` is declared in a later group.
TightOpDeclarations ==
    <<
      << [name |-> numberOp, arity |-> <<1>>], [name |-> nameOp, arity |-> <<1>>],
         [name |-> callOp, arity |-> <<1, Infinity>>],
         [name |-> indexOp, arity |-> <<1, Infinity>>],
         [name |-> <<"!">>, arity |-> <<1>>] >>,
      << [name |-> <<"-">>, arity |-> <<1, 2>>] >>
    >>

TightRegistry == constructor(TightOpDeclarations, MacroDeclarations)

\* The longest generated source of operators, operands and brackets.
MaxTightLen == 3

TightAlphabet == {"!", "-", "x", "0", "(", ")", "[", "]"}

TightSources == Strings(TightAlphabet, MaxTightLen)

\* A unary operator, an operand and one group with the argument 0.
ThresholdOperators == {"!", "-"}

ThresholdOperands == { <<"x">>, <<"(", "x", ")">>, <<"0">> }

ThresholdGroups == { <<"(", "0", ")">>, <<"[", "0", "]">> }

ThresholdSources ==
    { <<op>> \o operand \o group :
        op \in ThresholdOperators, operand \in ThresholdOperands, group \in ThresholdGroups }

InitTight ==
    \/ InitOf(TightRegistry, TightSources \cup ThresholdSources, {QuietHostOf(TightRegistry)})
    \/ InitWith({MacroSource}, {ThrowingHost})

SpecTight == InitTight /\ [][Next]_vars

\* The tree of a name or a number of one character.
BareOf(c) ==
    [type |-> "operation", operator |-> IF c \in DigitChars THEN numberOp ELSE nameOp,
     operands |-> << [type |-> "literal", value |-> <<c>>] >>]

\* The tree of the operand x, (x) or 0.
OperandTree(operand) == BareOf(IF operand = <<"0">> THEN "0" ELSE "x")

UnaryTree(op, tree) == [type |-> "operation", operator |-> <<op>>, operands |-> <<tree>>]

GroupTree(group, tree) ==
    [type |-> "operation", operator |-> IF group[1] = "(" THEN callOp ELSE indexOp,
     operands |-> <<tree, BareOf("0")>>]

\* The group is folded inside the operand of OP when the precedence of its
\* operator exceeds that of OP, and around the operation of OP when not.
ThresholdTree(op, operand, group) ==
    LET groupOp == IF group[1] = "(" THEN callOp ELSE indexOp
    IN  IF operators[groupOp].precedence > operators[<<op>>].precedence
        THEN UnaryTree(op, GroupTree(group, OperandTree(operand)))
        ELSE GroupTree(group, UnaryTree(op, OperandTree(operand)))

\* C27: a `(` or `[` group after an operand is folded into #call or #index
\* inside an expression of threshold t only when the precedence of #call or
\* #index exceeds t, whatever the operand, a bare name included: with `!`
\* declared in the group of #call and #index, `!x(0)` is #call(!(x), 0) as
\* `!x[0]` is #index(!(x), 0); with `-` declared after them, `-x(0)` is
\* -(#call(x, 0)).
C27_GroupsObeyThreshold ==
    pc # "start" =>
        \A op \in ThresholdOperators, operand \in ThresholdOperands, group \in ThresholdGroups :
            src = <<op>> \o operand \o group =>
                /\ ~(result.status = "threw" /\ result.during = "parse")
                /\ Len(asts) = 1
                /\ Bare(asts[1]) = ThresholdTree(op, operand, group)

(***************************************************************************)
(* C28: the metadata of a node                                             *)
(***************************************************************************)

\* The nodes directly below a node: operands, or arguments, body statements
\* and limb statements.
ChildrenOf(node) ==
    IF node.type = "literal" THEN {}
    ELSE IF node.type = "operation" THEN {node.operands[k] : k \in 1..Len(node.operands)}
    ELSE {node.args[k] : k \in 1..Len(node.args)}
         \cup {node.body[k] : k \in 1..Len(node.body)}
         \cup UNION {{node.limbs[l][k] : k \in 1..Len(node.limbs[l])} : l \in DOMAIN node.limbs}

\* The node and every node below it.
RECURSIVE NodesBelow(_)
NodesBelow(node) == {node} \cup UNION {NodesBelow(child) : child \in ChildrenOf(node)}

ParsedNodes == UNION {NodesBelow(asts[k]) : k \in 1..Len(asts)}

\* The excerpt is the text of the source from loc on.
ExcerptAtLoc(node) ==
    LET m == node.metadata
    IN  /\ m.loc >= 0
        /\ m.loc + Len(m.excerpt) <= Len(src)
        /\ m.excerpt = SubSeq(src, m.loc + 1, m.loc + Len(m.excerpt))

\* The range of the child lies inside the range of the parent.
Inside(child, parent) ==
    /\ parent.metadata.loc <= child.metadata.loc
    /\ child.metadata.loc + Len(child.metadata.excerpt)
          <= parent.metadata.loc + Len(parent.metadata.excerpt)

\* C28: the excerpt of every node of a parsed script is the slice of the
\* source that starts at the node's loc, and the range [loc, loc + length of
\* the excerpt) of every child (operand, argument, body or limb statement)
\* lies inside the range of its parent.
C28_MetadataRanges ==
    pc # "start" =>
        \A node \in ParsedNodes :
            /\ ExcerptAtLoc(node)
            /\ \A child \in ChildrenOf(node) : Inside(child, node)

(***************************************************************************)
(* C29: evaluation leaves the trees and the tables as they are             *)
(***************************************************************************)

\* What an activation was given: the context and the members of a reducer,
\* the tree and the local tables of a call of ev, the node and the scope of
\* an operation or a macro being evaluated.
Given(frame) ==
    IF frame.kind = "host"
    THEN <<frame.reducer, frame.context, frame.body, frame.args, frame.limbs>>
    ELSE IF frame.kind = "ev" THEN <<frame.ast, frame.localOperators, frame.localMacros>>
    ELSE IF frame.kind = "operation" THEN <<frame.node, frame.operators, frame.macros>>
    ELSE <<frame.node>>

\* A step leaves the parsed statements, the declarations, the tables the
\* host passes and what every activation still in progress was given as
\* they were.
StepKeepsTreesAndTables ==
    /\ pc # "start" => asts' = asts
    /\ host' = host
    /\ operators' = operators
    /\ macros' = macros
    /\ \A k \in 1..Min(Len(stack), Len(stack')) :
          /\ stack'[k].kind = stack[k].kind
          /\ Given(stack'[k]) = Given(stack[k])

\* A call of ev evaluates the tree it was given in the ambient tables of the
\* calling context overridden by the local tables it was given.
EvSeesItsScope ==
    (ctl.mode = "eval" /\ stack # <<>> /\ Top.kind = "ev") =>
        /\ ctl.node = Top.ast
        /\ ctl.operators = Spread(stack[Len(stack) - 1].context.operators, Top.localOperators)
        /\ ctl.macros = Spread(stack[Len(stack) - 1].context.macros, Top.localMacros)

\* The script reducer, while it runs, holds the context and the statements
\* compile gave it.
ScriptAsCalled == stack # <<>> => Given(stack[1]) = Given(ScriptCall(asts))

\* C29: evaluation changes no tree and no table: at every step the parsed
\* statements, the context (ambient operators and macros) and the members of
\* every reducer in progress, and the tree and the local tables of every
\* call of ev in progress are what they were, so that when ev returns or
\* throws its caller holds what it held before the call; and every call of
\* ev evaluates its tree in the calling context's tables overridden by the
\* local tables of that call, whatever the earlier calls on the same tree
\* were given.
C29_EvaluationMutatesNothing ==
    /\ []EvSeesItsScope
    /\ []ScriptAsCalled
    /\ [][StepKeepsTreesAndTables]_vars

IsEvCall(event) == event.type = "ev"

\* The script reducer has evaluated the same statement twice, with the `+`
\* of part A and with the `+` of part B, the second call has returned, and
\* it still holds the context and the statements it was called with.
C29_Witness ==
    LET calls == SelectSeq(trace, IsEvCall)
    IN  /\ src = SiblingSource
        /\ Len(stack) = 1
        /\ ctl.mode = "host"
        /\ Len(calls) = 2
        /\ calls[1].ast = calls[2].ast
        /\ calls[1].localOperators # calls[2].localOperators
        /\ Top.calls = 2
        /\ Len(Top.results) = 2
        /\ ScriptAsCalled

(***************************************************************************)
(* C30: parsing ends                                                       *)
(***************************************************************************)

\* The longest generated source of brackets, quotes and separators.
MaxLoopLen == 4

LoopAlphabet == {"[", "]", "1", "+", ";", "\"", ")"}

LoopSources == Strings(LoopAlphabet, MaxLoopLen)

\* Sources that stop in the middle of a string, an interpolation, a comment,
\* a macro, a limb, a group, a pack.
WrittenLoopSources ==
    { <<"\"", "a", "{", "1">>, <<"\"", "{">>, <<"\"", "a">>,
      <<"[", "[", " ", "a", " ", "[", "[", " ", "b", " ", "]", "]">>,
      <<"1", " ", "[", "[">>,
      <<"m", "(", "1", ")", "{">>, <<"m", "(", "1", ")", "{", "}", "e", "{">>, <<"m", "(", "1">>,
      <<"a", "(">>, <<"a", "[", "1">>, <<"(", "1">>,
      <<"[", "1", " ", "}">>, <<"[", "1", "+", "1", " ", "}", "]">>, <<"[", "1", "+">>,
      <<"[", "+", "1", ";">>, <<"#">>, <<"1", "#", "1">> }

InitLoop ==
    \/ InitWith(LoopSources \cup WrittenLoopSources, {QuietHost})
    \/ InitWith({MacroSource}, {ThrowingHost})

SpecLoop == InitLoop /\ [][Next]_vars

\* An error thrown by the parser with the place it was found at.
IsSyntaxError(e) == Len(e.headers) = 1 /\ Len(e.msg) >= 1

\* parseScript has returned a list of statements or thrown a syntax error.
ParseEnded ==
    \/ /\ pc = "failed"
       /\ result.status = "threw"
       /\ result.during = "parse"
       /\ IsSyntaxError(result.error)
       /\ asts = <<>>
    \/ /\ ~(result.status = "threw" /\ result.during = "parse")
       /\ \A k \in 1..Len(asts) : asts[k].type \in {"operation", "macro", "literal"}

Has(s, two) == \E k \in 1..(Len(s) - 1) : SubSeq(s, k, k + 1) = two

\* A comment that is not closed, a string that is not closed, an infix pack
\* that meets `;`, `)` or `}` where an operand or an operator is due.
UnterminatedComment == Len(src) >= 2 /\ SubSeq(src, 1, 2) = <<"[", "[">> /\ ~Has(src, <<"]", "]">>)

UnterminatedString ==
    /\ src # <<>>
    /\ src[1] = "\""
    /\ \A k \in 2..Len(src) : src[k] # "\""

StrayInPack ==
    \/ Len(src) >= 2 /\ src[1] = "[" /\ src[2] \in {";", ")", "}"}
    \/ Len(src) >= 3 /\ src[1] = "[" /\ src[2] = "1" /\ src[3] \in {";", ")", "}"}
    \/ Len(src) >= 4 /\ SubSeq(src, 1, 3) = <<"[", "1", " ">> /\ src[4] \in {";", ")", "}"}

\* Every call that returns has moved on: an operand, an expression and an
\* operator read from any index of the source take at least one character.
CallsAdvance ==
    \A i \in 0..Len(src) :
        LET text == Append(src, NUL)
            operand == Call("parseOperand", <<text, i, TRUE>>)
            expression == Call("parseExpression", <<text, i, 0>>)
            operator == Call("parseOperator", <<text, i>>)
        IN  /\ operand.err \/ operand.len >= 1
            /\ expression.err \/ expression.len >= 1
            /\ operator.err \/ operator.len >= 1

\* parseScript(src) has a value: the statements, or a syntax error.
ParseHasOutcome ==
    LET parsed == parseScript(src)
    IN  IF parsed.err THEN IsSyntaxError(parsed.error)
        ELSE \A k \in 1..Len(parsed.val) : parsed.val[k].type \in {"operation", "macro", "literal"}

\* The step compile starts with is the call of parseScript, over in one step.
ParseIsOneStep == pc = "start" => pc' \in {"parsed", "failed"}

\* C30: with operator names that are not empty, parsing ends for every
\* source: the call of parseScript has an outcome, a list of statements
\* returned or a syntax error thrown, every operand, expression and
\* operator read takes at least one character or throws, and a comment
\* that is not closed, a string that is not closed and an infix pack that
\* meets a character which is neither `]`, an operator nor the start of an
\* operand each end in a syntax error.
C30_ParsingEnds ==
    /\ [](pc = "start" => ParseHasOutcome)
    /\ [][ParseIsOneStep]_vars
    /\ [](pc # "start" => ParseEnded)
    /\ []((pc = "failed" /\ trace = <<>>) => CallsAdvance)
    /\ []((pc # "start" /\ (UnterminatedComment \/ UnterminatedString \/ StrayInPack))
             => (pc = "failed" /\ result.during = "parse"))
    /\ []((pc # "start" /\ UnterminatedComment) => result.error.msg = <<"Unclosed comment.">>)

\* The pack [1 } has ended in the error of the operator that was due, and a
\* comment left open in the error of flushed.
C30_Witness ==
    /\ pc = "failed"
    /\ \/ /\ src = <<"[", "1", " ", "}">>
          /\ result.error.msg = <<"Operator expected.">>
       \/ /\ src = <<"1", " ", "[", "[">>
          /\ result.error.msg = <<"Unclosed comment.">>

====
